---- MODULE Spec2Model ----
(***************************************************************************)
(* A model of the risk-scoring core of the URL scanner:                    *)
(*   - calculateScore       (backend/src/services/scoring.ts)              *)
(*   - analyzeRequest       (backend/src/services/docker/analyzer, kept in *)
(*                           src/backend/src/services/docker/              *)
(*                           playwrightScript.ts)                          *)
(*   - analyzeAllRequests   (the same file)                                *)
(*   - scanUrl              (backend/src/services/scanner.ts, kept in      *)
(*                           src/unnamed/part_004)                         *)
(* Strings are TLA+ strings, read character by character with SubSeq.      *)
(***************************************************************************)
EXTENDS Integers, Sequences, FiniteSets, TLC

VARIABLES
    checks,         \* ScanResult.checks: check name -> result record, or Absent
    score,          \* ScanResult.score
    evaluated,      \* the deduction blocks calculateScore went through, in order
    phase,          \* "building" | "scored" (scoring), "captured" | "analyzed" (classifier),
                    \* "looping" | "returned" (analyzeAllRequests),
                    \* "scanning" | "scanned" (scanUrl)
    request,        \* the NetworkRequest handed to analyzeRequest
    originalDomain, \* the hostname of the scanned URL
    analysis,       \* the AnalysisResult of request, or Absent
    requests,       \* the NetworkRequest list handed to analyzeAllRequests
    loop,           \* the locals of analyzeAllRequests
    result,         \* what analyzeAllRequests returned, or Absent
    site,           \* scanUrl's argument url
    deepScan,       \* scanUrl's argument deepScan
    pc,             \* the step scanUrl runs next
    serverIp,       \* scanUrl's local serverIp
    updates,        \* the ProgressUpdates handed to onProgress, in order
    invoked,        \* the probes scanUrl called, in order
    failed,         \* the probes whose network call failed
    linkScanner,    \* the state of the LinkScanner component
    socket,         \* LinkScanner's socket and what its handlers closed over
    scans,          \* the scans the start-scan handler of the server started
    qrScanner       \* the state of the QRScanner component and its Html5Qrcode scanners

\* The state of calculateScore's caller, of analyzeRequest's, of
\* analyzeAllRequests, of scanUrl, and of the LinkScanner component with the
\* server it talks to and the QRScanner component next to it.
scoreVars == <<checks, score, evaluated>>

classifyVars == <<request, analysis>>

aggregateVars == <<requests, loop, result>>

scanVars == <<site, deepScan, pc, serverIp, updates, invoked, failed>>

clientVars == <<linkScanner, socket, scans, qrScanner>>

vars == <<scoreVars, phase, originalDomain, classifyVars, aggregateVars, scanVars, clientVars>>

(***************************************************************************)
(* Bounds of the model.                                                    *)
(***************************************************************************)
\* The largest number of check results put into one ScanResult.
MaxChecks == 2

\* The largest number of requests the sandbox captured of one page.
MaxRequests == 3

(***************************************************************************)
(* Small helpers standing for JavaScript built-ins.                        *)
(***************************************************************************)
Max(a, b) == IF a >= b THEN a ELSE b

Min(a, b) == IF a <= b THEN a ELSE b

\* String.prototype.includes
Includes(s, sub) ==
    \E i \in 1..(Len(s) - Len(sub) + 1) : SubSeq(s, i, i + Len(sub) - 1) = sub

\* An optional number: <<>> is undefined, <<n>> is the number n.
Undefined == <<>>

Num(n) == <<n>>

\* x < k in JavaScript, where undefined compares false with every number.
Lt(x, k) == x # Undefined /\ x[1] < k

\* a / b < num / den in JavaScript for a >= 0, b >= 0: 0/0 is NaN and a/0 is
\* Infinity, and both compare false.
RatioLt(a, b, num, den) == b > 0 /\ a * den < num * b

(***************************************************************************)
(* ScanResult.checks                                                       *)
(***************************************************************************)
CheckNames ==
    { "whois", "ssl", "geolocation", "safeBrowsing", "reverseDns", "portScan",
      "ipReputation", "dockerScan", "securityHeaders", "cookieSecurity",
      "sensitiveFiles", "versionDisclosure", "adminPanels" }

\* An optional key of checks that was never assigned.
Absent == [present |-> FALSE]

NoChecks == [n \in CheckNames |-> Absent]

\* The result record checkSensitiveFiles builds from the files it found,
\* nc critical, nh high and no medium or low ones.
checkSensitiveFiles(nc, nh, no) ==
    [ present            |-> TRUE,
      exposedFiles       |-> nc + nh + no,
      hasVulnerabilities |-> nc + nh + no > 0,
      criticalCount      |-> nc,
      highCount          |-> nh ]

\* The result record checkAdminPanels builds from the endpoints it found:
\* na of type admin, nd of type debug, no of another type.
checkAdminPanels(na, nd, no) ==
    [ present          |-> TRUE,
      nAdmin           |-> na,
      nDebug           |-> nd,
      foundPanels      |-> na + nd + no,
      hasExposedPanels |-> na + nd + no > 0 ]

\* The values a check result is drawn from.
CheckValues(name) ==
    CASE name = "whois" ->
           { [present |-> TRUE, ageInDays |-> a] : a \in {3, 10, 45, 200} }
      [] name = "ssl" ->
           { [present |-> TRUE, valid |-> v, daysUntilExpiry |-> d,
              cipherStrength |-> c, tlsVersion |-> t] :
                v \in BOOLEAN, d \in {Num(3), Undefined},
                c \in {"strong", "moderate", "weak"},
                t \in {"TLSv1.3", "TLSv1.1", ""} }
      [] name = "geolocation" ->
           { [present |-> TRUE] }
      [] name = "safeBrowsing" ->
           { [present |-> TRUE, isSafe |-> b] : b \in BOOLEAN }
      [] name = "reverseDns" ->
           { [present |-> TRUE, matches |-> b] : b \in BOOLEAN }
      [] name = "portScan" ->
           { [present |-> TRUE, isSuspicious |-> b] : b \in BOOLEAN }
      [] name = "ipReputation" ->
           { [present |-> TRUE, abuseConfidenceScore |-> a, totalReports |-> r] :
                a \in {0, 30, 60, 80}, r \in {0, 20, 60, 150} }
      [] name = "dockerScan" ->
           { [present |-> TRUE, success |-> s, suspiciousRequests |-> q,
              thirdPartyDomains |-> d] :
                s \in BOOLEAN, q \in {0, 1, 3, 6}, d \in {0, 11, 21} }
      [] name = "securityHeaders" ->
           { [present |-> TRUE, grade |-> g] : g \in {"A", "B", "C", "D", "F"} }
      [] name = "cookieSecurity" ->
           { [present |-> TRUE, totalCookies |-> 0, secureCookies |-> 0, hasIssues |-> FALSE],
             [present |-> TRUE, totalCookies |-> 0, secureCookies |-> 0, hasIssues |-> TRUE],
             [present |-> TRUE, totalCookies |-> 2, secureCookies |-> 2, hasIssues |-> FALSE],
             [present |-> TRUE, totalCookies |-> 2, secureCookies |-> 2, hasIssues |-> TRUE],
             [present |-> TRUE, totalCookies |-> 2, secureCookies |-> 1, hasIssues |-> TRUE],
             [present |-> TRUE, totalCookies |-> 3, secureCookies |-> 1, hasIssues |-> TRUE] }
      [] name = "sensitiveFiles" ->
           { checkSensitiveFiles(nc, nh, no) :
                nc \in {0, 2}, nh \in {0, 1}, no \in {0, 1} }
           \cup
           \* records no probe builds, which calculateScore accepts all the same
           { [present |-> TRUE, exposedFiles |-> 1, hasVulnerabilities |-> TRUE,
              criticalCount |-> -1, highCount |-> 0],
             [present |-> TRUE, exposedFiles |-> 0, hasVulnerabilities |-> TRUE,
              criticalCount |-> -2, highCount |-> 0],
             [present |-> TRUE, exposedFiles |-> 1, hasVulnerabilities |-> FALSE,
              criticalCount |-> 1, highCount |-> 0] }
      [] name = "versionDisclosure" ->
           { [present |-> TRUE, hasDisclosure |-> TRUE, riskLevel |-> r] :
                r \in {"high", "medium", "low"} }
           \cup { [present |-> TRUE, hasDisclosure |-> FALSE, riskLevel |-> "none"] }
      [] name = "adminPanels" ->
           { checkAdminPanels(na, nd, no) :
                na \in {0, 2}, nd \in {0, 1}, no \in {0, 1} }

(***************************************************************************)
(* calculateScore: one operator per deduction block, giving the running    *)
(* total after the block.                                                  *)
(***************************************************************************)
WhoisStep(c, s) ==
    IF c.whois.present
    THEN LET age == c.whois.ageInDays
         IN  IF age < 7 THEN s - 40
             ELSE IF age < 30 THEN s - 20
             ELSE IF age < 90 THEN s - 10
             ELSE s
    ELSE s

\* SslStep with the missing-certificate penalty left out.
SslStep_absentFree(c, s) ==
    IF c.ssl.present
    THEN LET ssl == c.ssl
             s1  == IF ~ssl.valid THEN s - 30
                    ELSE IF Lt(ssl.daysUntilExpiry, 7) THEN s - 15
                    ELSE s
             s2  == IF ssl.cipherStrength = "weak" THEN s1 - 20
                    ELSE IF ssl.cipherStrength = "moderate" THEN s1 - 5
                    ELSE s1
         IN  IF ssl.tlsVersion # "" /\ ~Includes(ssl.tlsVersion, "1.2")
                                   /\ ~Includes(ssl.tlsVersion, "1.3")
             THEN s2 - 15
             ELSE s2
    ELSE s

\* SslStep with validity, cipher and TLS version in one else-if chain.
SslStep_oneChain(c, s) ==
    IF c.ssl.present
    THEN LET ssl == c.ssl
         IN  IF ~ssl.valid THEN s - 30
             ELSE IF Lt(ssl.daysUntilExpiry, 7) THEN s - 15
             ELSE IF ssl.cipherStrength = "weak" THEN s - 20
             ELSE IF ssl.cipherStrength = "moderate" THEN s - 5
             ELSE IF ssl.tlsVersion # "" /\ ~Includes(ssl.tlsVersion, "1.2")
                                        /\ ~Includes(ssl.tlsVersion, "1.3")
             THEN s - 15
             ELSE s
    ELSE s - 20


SslStep(c, s) ==
    IF c.ssl.present
    THEN LET ssl == c.ssl
             s1  == IF ~ssl.valid THEN s - 30
                    ELSE IF Lt(ssl.daysUntilExpiry, 7) THEN s - 15
                    ELSE s
             s2  == IF ssl.cipherStrength = "weak" THEN s1 - 20
                    ELSE IF ssl.cipherStrength = "moderate" THEN s1 - 5
                    ELSE s1
         IN  IF ssl.tlsVersion # "" /\ ~Includes(ssl.tlsVersion, "1.2")
                                   /\ ~Includes(ssl.tlsVersion, "1.3")
             THEN s2 - 15
             ELSE s2
    ELSE s - 20

ReverseDnsStep(c, s) ==
    IF c.reverseDns.present /\ ~c.reverseDns.matches THEN s - 5 ELSE s

PortScanStep(c, s) ==
    IF c.portScan.present /\ c.portScan.isSuspicious THEN s - 15 ELSE s

IpReputationStep(c, s) ==
    IF c.ipReputation.present
    THEN LET rep == c.ipReputation
             s1  == IF rep.abuseConfidenceScore > 75 THEN s - 40
                    ELSE IF rep.abuseConfidenceScore > 50 THEN s - 25
                    ELSE IF rep.abuseConfidenceScore > 25 THEN s - 10
                    ELSE s
         IN  IF rep.totalReports > 100 THEN s1 - 15
             ELSE IF rep.totalReports > 50 THEN s1 - 10
             ELSE IF rep.totalReports > 10 THEN s1 - 5
             ELSE s1
    ELSE s

\* DockerScanStep with the request and domain tiers applied to a failed scan too.
DockerScanStep_stacked(c, s) ==
    IF c.dockerScan.present
    THEN LET docker == c.dockerScan
             s0 == IF ~docker.success THEN s - 5 ELSE s
             suspiciousCount == docker.suspiciousRequests
             thirdPartyCount == docker.thirdPartyDomains
             s1 == IF suspiciousCount > 5 THEN s0 - 30
                   ELSE IF suspiciousCount > 2 THEN s0 - 20
                   ELSE IF suspiciousCount > 0 THEN s0 - 10
                   ELSE s0
         IN  IF thirdPartyCount > 20 THEN s1 - 10
             ELSE IF thirdPartyCount > 10 THEN s1 - 5
             ELSE s1
    ELSE s


DockerScanStep(c, s) ==
    IF c.dockerScan.present
    THEN LET docker == c.dockerScan
         IN  IF ~docker.success
             THEN s - 5
             ELSE LET suspiciousCount == docker.suspiciousRequests
                      thirdPartyCount == docker.thirdPartyDomains
                      s1 == IF suspiciousCount > 5 THEN s - 30
                            ELSE IF suspiciousCount > 2 THEN s - 20
                            ELSE IF suspiciousCount > 0 THEN s - 10
                            ELSE s
                  IN  IF thirdPartyCount > 20 THEN s1 - 10
                      ELSE IF thirdPartyCount > 10 THEN s1 - 5
                      ELSE s1
    ELSE s

SecurityHeadersStep(c, s) ==
    IF c.securityHeaders.present
    THEN LET grade == c.securityHeaders.grade
         IN  IF grade = "F" THEN s - 20
             ELSE IF grade = "D" THEN s - 15
             ELSE IF grade = "C" THEN s - 10
             ELSE IF grade = "B" THEN s - 5
             ELSE s
    ELSE s

CookieSecurityStep(c, s) ==
    IF c.cookieSecurity.present /\ c.cookieSecurity.hasIssues
    THEN LET ck == c.cookieSecurity
         IN  IF RatioLt(ck.secureCookies, ck.totalCookies, 1, 2) THEN s - 10
             ELSE IF RatioLt(ck.secureCookies, ck.totalCookies, 1, 1) THEN s - 5
             ELSE s
    ELSE s

\* SensitiveFilesStep counting every exposed file as a medium or low one.
SensitiveFilesStep_flat(c, s) ==
    IF c.sensitiveFiles.present /\ c.sensitiveFiles.hasVulnerabilities
    THEN s - c.sensitiveFiles.exposedFiles * 5
    ELSE s


SensitiveFilesStep(c, s) ==
    IF c.sensitiveFiles.present /\ c.sensitiveFiles.hasVulnerabilities
    THEN LET sf == c.sensitiveFiles
         IN  s - sf.criticalCount * 25
               - sf.highCount * 15
               - (sf.exposedFiles - sf.criticalCount - sf.highCount) * 5
    ELSE s

VersionDisclosureStep(c, s) ==
    IF c.versionDisclosure.present /\ c.versionDisclosure.hasDisclosure
    THEN LET vd == c.versionDisclosure
         IN  IF vd.riskLevel = "high" THEN s - 15
             ELSE IF vd.riskLevel = "medium" THEN s - 8
             ELSE s - 3
    ELSE s

AdminPanelsStep(c, s) ==
    IF c.adminPanels.present /\ c.adminPanels.hasExposedPanels
    THEN s - c.adminPanels.nDebug * 10 - c.adminPanels.nAdmin * 3
    ELSE s

\* The deduction blocks in the order calculateScore goes through them.
ScoreSteps ==
    << "whois", "ssl", "reverseDns", "portScan", "ipReputation", "dockerScan",
       "securityHeaders", "cookieSecurity", "sensitiveFiles",
       "versionDisclosure", "adminPanels" >>

ApplyStep(name, c, s) ==
    CASE name = "whois"             -> WhoisStep(c, s)
      [] name = "ssl"               -> SslStep(c, s)
      [] name = "reverseDns"        -> ReverseDnsStep(c, s)
      [] name = "portScan"          -> PortScanStep(c, s)
      [] name = "ipReputation"      -> IpReputationStep(c, s)
      [] name = "dockerScan"        -> DockerScanStep(c, s)
      [] name = "securityHeaders"   -> SecurityHeadersStep(c, s)
      [] name = "cookieSecurity"    -> CookieSecurityStep(c, s)
      [] name = "sensitiveFiles"    -> SensitiveFilesStep(c, s)
      [] name = "versionDisclosure" -> VersionDisclosureStep(c, s)
      [] name = "adminPanels"       -> AdminPanelsStep(c, s)

\* RunSteps with the running total clamped to [0,100] after every block.
RECURSIVE RunSteps_clampEach(_, _, _)
RunSteps_clampEach(steps, c, s) ==
    IF steps = <<>> THEN s
    ELSE RunSteps_clampEach(Tail(steps), c,
                            Max(0, Min(100, ApplyStep(Head(steps), c, s))))

\* The running total after the blocks `steps`, taken in that order from s.
RECURSIVE RunSteps(_, _, _)
RunSteps(steps, c, s) ==
    IF steps = <<>> THEN s
    ELSE RunSteps(Tail(steps), c, ApplyStep(Head(steps), c, s))

\* ClampScore without the clamp.
ClampScore_none(s) == s

\* The final Math.max(0, Math.min(100, score)).
ClampScore(s) == Max(0, Min(100, s))

\* The blacklist test that opens calculateScore.
IsBlacklisted(c) == c.safeBrowsing.present /\ ~c.safeBrowsing.isSafe

\* calculateScore with the blacklist test after the deduction blocks, setting
\* the running total to 0 there.
calculateScore_lateBlacklist(c) ==
    [ score     |-> IF IsBlacklisted(c) THEN 0
                    ELSE ClampScore(RunSteps(ScoreSteps, c, 100)),
      evaluated |-> ScoreSteps ]

\* calculateScore(result): the score it returns and the blocks it evaluated.
calculateScore(c) ==
    IF IsBlacklisted(c)
    THEN [score |-> 0, evaluated |-> <<>>]
    ELSE [score |-> ClampScore(RunSteps(ScoreSteps, c, 100)), evaluated |-> ScoreSteps]

(***************************************************************************)
(* Scoring: a ScanResult is filled with check results, in any order, and   *)
(* then scored.                                                            *)
(***************************************************************************)
Present(c) == {n \in CheckNames : c[n].present}

\* analyzeAllRequests' locals as it initialises them; categoryCounts is the
\* function of its keys, {} at first.
EmptyLoop ==
    [ analyzedRequests   |-> <<>>,
      suspiciousRequests |-> <<>>,
      categoryCounts     |-> [cat \in {} |-> 0],
      criticalCount      |-> 0,
      highCount          |-> 0,
      highestRisk        |-> 0,
      totalRiskScore     |-> 0 ]

\* No request has been captured: the sandbox has not run.
NoRequest == [url |-> "", resourceType |-> "", status |-> <<>>]

\* scanUrl was not called.
NoScan ==
    /\ site = ""
    /\ deepScan = FALSE
    /\ pc = "idle"
    /\ serverIp = ""
    /\ updates = <<>>
    /\ invoked = <<>>
    /\ failed = {}

\* Neither LinkScanner nor QRScanner is mounted.
NoClient ==
    /\ linkScanner = Absent
    /\ socket = Absent
    /\ scans = <<>>
    /\ qrScanner = Absent

InitScore ==
    /\ checks = NoChecks
    /\ score = 100
    /\ evaluated = <<>>
    /\ phase = "building"
    /\ request = NoRequest
    /\ originalDomain = ""
    /\ analysis = Absent
    /\ requests = <<>>
    /\ loop = EmptyLoop
    /\ result = Absent
    /\ NoScan
    /\ NoClient

\* result.checks.<name> = <the probe's result>
SetCheck(name) ==
    /\ phase = "building"
    /\ ~checks[name].present
    /\ Cardinality(Present(checks)) < MaxChecks
    /\ \E v \in CheckValues(name) : checks' = [checks EXCEPT ![name] = v]
    /\ UNCHANGED <<score, evaluated, phase, originalDomain, classifyVars, aggregateVars, scanVars, clientVars>>

\* result.score = calculateScore(result)
Score ==
    /\ phase = "building"
    /\ score' = calculateScore(checks).score
    /\ evaluated' = calculateScore(checks).evaluated
    /\ phase' = "scored"
    /\ UNCHANGED <<checks, originalDomain, classifyVars, aggregateVars, scanVars, clientVars>>

NextScore ==
    \/ \E name \in CheckNames : SetCheck(name)
    \/ Score

SpecScore == InitScore /\ [][NextScore]_vars

(***************************************************************************)
(* Strings, as the classifier reads them.                                  *)
(***************************************************************************)
\* s[i] of JavaScript, 1-based.
Ch(s, i) == SubSeq(s, i, i)

\* s.substring(i - 1), the suffix starting at the i-th character.
From(s, i) == SubSeq(s, i, Len(s))

\* The literal lit stands in s at position i.
At(s, i, lit) == i >= 1 /\ i + Len(lit) - 1 <= Len(s) /\ SubSeq(s, i, i + Len(lit) - 1) = lit

\* String.prototype.endsWith
EndsWith(s, suf) == Len(suf) <= Len(s) /\ SubSeq(s, Len(s) - Len(suf) + 1, Len(s)) = suf

\* The position of the first character of s that lies in the set cs, or
\* Len(s) + 1 when there is none.
FirstOf(s, cs) ==
    IF \E i \in 1..Len(s) : Ch(s, i) \in cs
    THEN CHOOSE i \in 1..Len(s) : Ch(s, i) \in cs /\ \A k \in 1..(i - 1) : Ch(s, k) \notin cs
    ELSE Len(s) + 1

\* The position of the last "." of s, or 0.
LastDot(s) ==
    IF \E i \in 1..Len(s) : Ch(s, i) = "."
    THEN CHOOSE i \in 1..Len(s) : Ch(s, i) = "." /\ \A k \in (i + 1)..Len(s) : Ch(s, k) # "."
    ELSE 0

UpperCase == "ABCDEFGHIJKLMNOPQRSTUVWXYZ"

LowerCase == "abcdefghijklmnopqrstuvwxyz"

Letters == {Ch(LowerCase, i) : i \in 1..Len(LowerCase)}

UpperLetters == {Ch(UpperCase, i) : i \in 1..Len(UpperCase)}

Digits == {"0", "1", "2", "3", "4", "5", "6", "7", "8", "9"}

\* [a-z0-9]
LowerAlnum == Letters \cup Digits

\* [a-f0-9] under the i flag
HexDigits == Digits \cup {"a", "b", "c", "d", "e", "f", "A", "B", "C", "D", "E", "F"}

\* [A-Za-z0-9+/]
Base64Chars == Letters \cup UpperLetters \cup Digits \cup {"+", "/"}

\* \s, as far as a URL can hold it
Whitespace == {" "}

\* The lower-case form of one character.
LowerCh(ch) ==
    IF ch \in UpperLetters
    THEN Ch(LowerCase, CHOOSE i \in 1..Len(UpperCase) : Ch(UpperCase, i) = ch)
    ELSE ch

\* String.prototype.toLowerCase, by halves so that long strings stay shallow.
RECURSIVE toLowerCase(_)
toLowerCase(s) ==
    IF Len(s) = 0 THEN ""
    ELSE IF Len(s) = 1 THEN LowerCh(s)
    ELSE LET h == Len(s) \div 2
         IN  toLowerCase(SubSeq(s, 1, h)) \o toLowerCase(SubSeq(s, h + 1, Len(s)))

\* s repeated n times.
RECURSIVE Repeat(_, _)
Repeat(s, n) ==
    IF n = 0 THEN ""
    ELSE IF n = 1 THEN s
    ELSE LET h == n \div 2
         IN  Repeat(s, h) \o Repeat(s, n - h)

\* The characters i .. i + n - 1 of s exist and all lie in cs: cs{n} at i.
RunAt(s, i, n, cs) == i + n - 1 <= Len(s) /\ \A k \in i..(i + n - 1) : Ch(s, k) \in cs

\* The first position at or after i that holds no whitespace.
SkipWhitespace(s, i) ==
    CHOOSE j \in i..(Len(s) + 1) :
        /\ j = Len(s) + 1 \/ Ch(s, j) \notin Whitespace
        /\ \A k \in i..(j - 1) : Ch(s, k) \in Whitespace

\* The sequence 1, 2, ..., n.
UpTo(n) == [i \in 1..n |-> i]

\* s.split(/[^a-z0-9]+/), without the empty strings split leaves at the two
\* ends: the maximal runs of [a-z0-9] of s, in order.
WordStarts(s) ==
    SelectSeq(UpTo(Len(s)),
              LAMBDA i : Ch(s, i) \in LowerAlnum /\ (i = 1 \/ Ch(s, i - 1) \notin LowerAlnum))

WordEnd(s, i) ==
    CHOOSE j \in i..Len(s) :
        /\ j = Len(s) \/ Ch(s, j + 1) \notin LowerAlnum
        /\ \A k \in i..j : Ch(s, k) \in LowerAlnum

SplitWords(s) ==
    LET starts == WordStarts(s)
    IN  [n \in 1..Len(starts) |-> SubSeq(s, starts[n], WordEnd(s, starts[n]))]

\* The elements of the sequence q without repetitions, in order of first
\* occurrence: [...new Set(q)].
Distinct(q) ==
    LET firsts == SelectSeq(UpTo(Len(q)), LAMBDA i : \A k \in 1..(i - 1) : q[k] # q[i])
    IN  [n \in 1..Len(firsts) |-> q[firsts[n]]]

\* Array.prototype.join
RECURSIVE Join(_, _)
Join(q, sep) ==
    IF Len(q) = 0 THEN ""
    ELSE IF Len(q) = 1 THEN q[1]
    ELSE q[1] \o sep \o Join(Tail(q), sep)

(***************************************************************************)
(* new URL(s): the WHATWG parser for absolute URLs without credentials,    *)
(* port, fragment or dot segments.  ok is FALSE where the constructor      *)
(* throws.                                                                 *)
(***************************************************************************)
\* The percent-encode sets of the path and of the query of a special URL,
\* and of the query of any other URL, among the characters of the requests
\* modelled here.
PathEncodeSet == {" ", "\"", "<", ">", "{", "}"}

SpecialQueryEncodeSet == {" ", "\"", "<", ">", "'"}

QueryEncodeSet == {" ", "\"", "<", ">"}

\* The percent-encoded form of one character.
EncodedAs(ch) ==
    CASE ch = " "  -> "%20"
      [] ch = "\"" -> "%22"
      [] ch = "'"  -> "%27"
      [] ch = "<"  -> "%3C"
      [] ch = ">"  -> "%3E"
      [] ch = "{"  -> "%7B"
      [] ch = "}"  -> "%7D"

\* s with its characters of the set cs percent-encoded.
RECURSIVE PercentEncode(_, _)
PercentEncode(s, cs) ==
    IF Len(s) = 0 THEN ""
    ELSE IF Len(s) = 1 THEN (IF s \in cs THEN EncodedAs(s) ELSE s)
    ELSE LET h == Len(s) \div 2
         IN  PercentEncode(SubSeq(s, 1, h), cs) \o PercentEncode(SubSeq(s, h + 1, Len(s)), cs)

SpecialSchemes == {"http", "https", "ws", "wss", "ftp"}

\* The characters a scheme is made of after its first letter.
SchemeChars == Letters \cup UpperLetters \cup Digits \cup {"+", "-", "."}

\* Code points a host may not hold.
ForbiddenHostChars == {" ", "<", ">", "[", "]", "^", "|", "%", "@", ":", "\\"}

ParseFailure == [ok |-> FALSE, protocol |-> "", hostname |-> "", pathname |-> "", search |-> ""]

ParseUrl(s) ==
    LET colon == FirstOf(s, {":"})
    IN  IF \/ colon > Len(s)
           \/ colon = 1
           \/ Ch(s, 1) \notin Letters \cup UpperLetters
           \/ \E k \in 2..(colon - 1) : Ch(s, k) \notin SchemeChars
        THEN ParseFailure
        ELSE
        LET scheme == toLowerCase(SubSeq(s, 1, colon - 1))
            rest   == From(s, colon + 1)
        IN  IF scheme \in SpecialSchemes
            THEN LET afterSlashes ==
                         From(rest, CHOOSE j \in 1..(Len(rest) + 1) :
                                        /\ j = Len(rest) + 1 \/ Ch(rest, j) \notin {"/", "\\"}
                                        /\ \A k \in 1..(j - 1) : Ch(rest, k) \in {"/", "\\"})
                     hostEnd  == FirstOf(afterSlashes, {"/", "\\", "?", "#"})
                     host     == SubSeq(afterSlashes, 1, hostEnd - 1)
                     tail     == From(afterSlashes, hostEnd)
                     pathEnd  == FirstOf(tail, {"?", "#"})
                     path     == SubSeq(tail, 1, pathEnd - 1)
                     query    == From(tail, pathEnd)
                 IN  IF host = "" \/ \E k \in 1..Len(host) : Ch(host, k) \in ForbiddenHostChars
                     THEN ParseFailure
                     ELSE [ ok       |-> TRUE,
                            protocol |-> scheme \o ":",
                            hostname |-> toLowerCase(host),
                            pathname |-> IF path = "" THEN "/"
                                         ELSE PercentEncode(path, PathEncodeSet),
                            search   |-> IF query = "?" THEN ""
                                         ELSE PercentEncode(query, SpecialQueryEncodeSet) ]
            ELSE LET pathEnd == FirstOf(rest, {"?", "#"})
                     query   == From(rest, pathEnd)
                 IN  [ ok       |-> TRUE,
                       protocol |-> scheme \o ":",
                       hostname |-> "",
                       pathname |-> SubSeq(rest, 1, pathEnd - 1),
                       search   |-> IF query = "?" THEN ""
                                    ELSE PercentEncode(query, QueryEncodeSet) ]

(***************************************************************************)
(* The classifier's policy tables (docker/constants.ts).  Sets that the    *)
(* code iterates are sequences, in insertion order.                        *)
(***************************************************************************)
SUSPICIOUS_TLDS ==
    { ".xyz", ".tk", ".ml", ".ga", ".cf", ".gq", ".top", ".work", ".click",
      ".link", ".buzz", ".surf", ".icu", ".monster", ".quest", ".sbs",
      ".rest", ".fit", ".cam", ".loan", ".racing", ".review", ".stream",
      ".ru", ".cn", ".cc", ".ws", ".pw", ".su" }

SUSPICIOUS_KEYWORDS ==
    { "login", "signin", "sign-in", "log-in", "verify", "verification",
      "secure", "security", "account", "password", "credential", "auth",
      "authenticate", "banking", "wallet", "confirm", "update", "suspend",
      "urgent", "suspended", "locked", "limited", "expire", "winner",
      "prize", "congratulation", "claim", "gift", "free", "bonus", "reward",
      "crypto", "bitcoin", "ethereum", "airdrop", "giveaway", "double",
      "binance", "coinbase", "metamask", "opensea", "nft" }

BRAND_DOMAINS ==
    << <<"paypal", "paypal.com">>, <<"netflix", "netflix.com">>,
       <<"amazon", "amazon.com">>, <<"apple", "apple.com">>,
       <<"microsoft", "microsoft.com">>, <<"google", "google.com">>,
       <<"facebook", "facebook.com">>, <<"instagram", "instagram.com">>,
       <<"whatsapp", "whatsapp.com">>, <<"telegram", "telegram.org">>,
       <<"discord", "discord.com">>, <<"twitter", "twitter.com">>,
       <<"linkedin", "linkedin.com">>, <<"dropbox", "dropbox.com">>,
       <<"chase", "chase.com">>, <<"wellsfargo", "wellsfargo.com">>,
       <<"bankofamerica", "bankofamerica.com">> >>

SUSPICIOUS_EXTENSIONS ==
    << ".exe", ".scr", ".bat", ".cmd", ".msi", ".jar", ".js", ".vbs",
       ".ps1", ".hta", ".apk", ".dmg", ".iso", ".zip", ".rar", ".7z",
       ".dll", ".com", ".pif", ".application", ".gadget", ".wsf", ".inf" >>

TRACKING_DOMAINS ==
    << "doubleclick.net", "googlesyndication.com", "googleadservices.com",
       "facebook.net", "fbcdn.net", "analytics.google.com", "google-analytics.com",
       "hotjar.com", "mouseflow.com", "fullstory.com", "clarity.ms",
       "mixpanel.com", "segment.io", "amplitude.com", "heap.io",
       "crazyegg.com", "inspectlet.com", "luckyorange.com" >>

CRYPTOMINER_DOMAINS ==
    << "coinhive.com", "coin-hive.com", "jsecoin.com", "cryptoloot.pro",
       "crypto-loot.com", "miner.pr0gramm.com", "webmine.pro", "authedmine.com",
       "ppoi.org", "projectpoi.com", "minero.cc", "reasedoper.pw" >>

\* pattern.source of each entry of SUSPICIOUS_PATTERNS.
SUSPICIOUS_PATTERNS ==
    << "data:text\\/html", "javascript:", "base64,[a-z0-9+/]{100,}", "eval\\s*\\(",
       "document\\.(cookie|location|write)", "\\.php\\?.*=[a-f0-9]{32,}",
       "\\/wp-(admin|login|includes)", "\\/\\.env", "\\/etc\\/passwd", "\\.\\.\\/",
       "union\\s+(all\\s+)?select", "<script", "on(error|load|click)\\s*=" >>

MAX_QUERY_STRING_LENGTH == 500

MAX_URL_LENGTH == 500

EXTREME_URL_LENGTH == 1000

\* The elements of a sequence, as a set.
Range(q) == {q[i] : i \in DOMAIN q}

\* extractTld(domain)
extractTld(domain) ==
    IF LastDot(domain) > 0 THEN "." \o From(domain, LastDot(domain) + 1) ELSE ""

\* /^\d{1,3}\.\d{1,3}\.\d{1,3}\.\d{1,3}$/.test(domain)
IsDottedQuad(domain) ==
    LET dots == SelectSeq(UpTo(Len(domain)), LAMBDA i : Ch(domain, i) = ".")
        cut  == <<0>> \o dots \o <<Len(domain) + 1>>
    IN  /\ Len(dots) = 3
        /\ \A n \in 1..4 :
              /\ cut[n + 1] - cut[n] - 1 \in 1..3
              /\ \A k \in (cut[n] + 1)..(cut[n + 1] - 1) : Ch(domain, k) \in Digits

\* SUSPICIOUS_PATTERNS[k].test(u); lu is u in lower case, which decides the
\* patterns that carry the i flag.
PatternTest(k, u, lu) ==
    CASE k = 1  -> Includes(lu, "data:text/html")
      [] k = 2  -> Includes(lu, "javascript:")
      [] k = 3  -> \E i \in 1..Len(lu) : At(lu, i, "base64,") /\ RunAt(lu, i + 7, 100, Base64Chars)
      [] k = 4  -> \E i \in 1..Len(lu) : At(lu, i, "eval") /\ At(lu, SkipWhitespace(lu, i + 4), "(")
      [] k = 5  -> \/ Includes(lu, "document.cookie")
                   \/ Includes(lu, "document.location")
                   \/ Includes(lu, "document.write")
      [] k = 6  -> \E i \in 1..Len(lu) :
                       /\ At(lu, i, ".php?")
                       /\ \E j \in (i + 5)..Len(lu) : Ch(lu, j) = "=" /\ RunAt(lu, j + 1, 32, HexDigits)
      [] k = 7  -> \/ Includes(lu, "/wp-admin")
                   \/ Includes(lu, "/wp-login")
                   \/ Includes(lu, "/wp-includes")
      [] k = 8  -> Includes(lu, "/.env")
      [] k = 9  -> Includes(lu, "/etc/passwd")
      [] k = 10 -> Includes(u, "../")
      [] k = 11 -> \E i \in 1..Len(lu) :
                       /\ At(lu, i, "union")
                       /\ SkipWhitespace(lu, i + 5) > i + 5
                       /\ LET j == SkipWhitespace(lu, i + 5)
                          IN  \/ At(lu, j, "select")
                              \/ /\ At(lu, j, "all")
                                 /\ SkipWhitespace(lu, j + 3) > j + 3
                                 /\ At(lu, SkipWhitespace(lu, j + 3), "select")
      [] k = 12 -> Includes(lu, "<script")
      [] k = 13 -> \E i \in 1..Len(lu) : \E w \in {"error", "load", "click"} :
                       /\ At(lu, i, "on" \o w)
                       /\ At(lu, SkipWhitespace(lu, i + 2 + Len(w)), "=")

\* The first of the hits of a for-of loop that breaks at its first hit, as a
\* one-element sequence, or <<>> when nothing hit.
FirstHit(hits) == IF hits = <<>> THEN <<>> ELSE <<hits[1]>>

\* request.url.match(/%[0-9A-Fa-f]{2}/g): the number of matches.
EncodedMatches(u) ==
    Len(SelectSeq(UpTo(Len(u)), LAMBDA i : Ch(u, i) = "%" /\ RunAt(u, i + 1, 2, HexDigits)))

(***************************************************************************)
(* analyzeRequest                                                          *)
(***************************************************************************)
\* reasons, categories and riskScore as analyzeRequest initialises them.
EmptyAcc == [reasons |-> <<>>, categories |-> <<>>, riskScore |-> 0]

\* Categories kept in an array, not in a Set.
Hit_categoryArray(acc, reason, category, delta) ==
    [ reasons    |-> Append(acc.reasons, reason),
      categories |-> Append(acc.categories, category),
      riskScore  |-> acc.riskScore + delta ]

\* reasons.push(reason); categories.add(category); riskScore += delta
Hit(acc, reason, category, delta) ==
    [ reasons    |-> Append(acc.reasons, reason),
      categories |-> IF category \in Range(acc.categories) THEN acc.categories
                     ELSE Append(acc.categories, category),
      riskScore  |-> acc.riskScore + delta ]

\* The words of the URL that the keyword loop pushes to foundKeywords.
FoundKeywords(urlLower, origin) ==
    SelectSeq(SplitWords(urlLower),
              LAMBDA word : /\ Len(word) > 2
                            /\ word \in SUSPICIOUS_KEYWORDS
                            /\ ~Includes(origin, word))

TldRule(x, acc) ==
    LET tld == extractTld(x.domain)
    IN  IF tld \in SUSPICIOUS_TLDS
        THEN Hit(acc, "Suspicious TLD: " \o tld, "suspicious-tld", 15)
        ELSE acc

IpRule(x, acc) ==
    IF IsDottedQuad(x.domain)
    THEN Hit(acc, "Direct IP address URL (bypassing DNS)", "ip-based", 30)
    ELSE acc

LengthRule(x, acc) ==
    IF Len(x.urlLower) > EXTREME_URL_LENGTH
    THEN Hit(acc, "Extremely long URL (" \o ToString(Len(x.urlLower))
                    \o " chars) - possible obfuscation", "obfuscation", 25)
    ELSE IF Len(x.urlLower) > MAX_URL_LENGTH
    THEN Hit(acc, "Long URL (" \o ToString(Len(x.urlLower)) \o " chars)", "obfuscation", 10)
    ELSE acc

KeywordRule(x, acc) ==
    IF Len(x.foundKeywords) > 0
    THEN Hit(acc,
             "Suspicious keywords: "
                 \o Join(SubSeq(Distinct(x.foundKeywords), 1,
                                Min(5, Len(Distinct(x.foundKeywords)))), ", "),
             "phishing-keywords",
             Min(Len(x.foundKeywords) * 5, 25))
    ELSE acc

ExtensionRule(x, acc) ==
    LET pathname == toLowerCase(x.url.pathname)
        ext == FirstHit(SelectSeq(SUSPICIOUS_EXTENSIONS,
                                    LAMBDA e : EndsWith(pathname, e) \/ Includes(pathname, e \o "?")))
    IN  IF ext # <<>>
        THEN Hit(acc, "Suspicious file download: " \o ext[1], "malware-download", 35)
        ELSE acc

PatternRule(x, acc) ==
    LET k == FirstHit(SelectSeq(UpTo(Len(SUSPICIOUS_PATTERNS)),
                                  LAMBDA n : PatternTest(n, x.request.url, x.urlLower)))
    IN  IF k # <<>>
        THEN Hit(acc,
                 "Suspicious pattern: "
                     \o SubSeq(SUSPICIOUS_PATTERNS[k[1]], 1,
                               Min(30, Len(SUSPICIOUS_PATTERNS[k[1]]))) \o "...",
                 "malicious-pattern", 30)
        ELSE acc

EncodingRule(x, acc) ==
    IF EncodedMatches(x.request.url) > 10
    THEN Hit(acc, "Heavy URL encoding (" \o ToString(EncodedMatches(x.request.url))
                    \o " encoded chars)", "obfuscation", 20)
    ELSE acc

QueryLengthRule(x, acc) ==
    IF Len(x.url.search) > MAX_QUERY_STRING_LENGTH
    THEN Hit(acc, "Unusually long query string (potential data exfiltration)",
             "data-exfiltration", 25)
    ELSE acc

\* url.search.match(/[A-Za-z0-9+/]{50,}={0,2}/)
Base64Rule(x, acc) ==
    IF \E i \in 1..Len(x.url.search) : RunAt(x.url.search, i, 50, Base64Chars)
    THEN Hit(acc, "Possible data exfiltration (base64 in query)", "data-exfiltration", 20)
    ELSE acc

HomographRule(x, acc) ==
    IF Includes(x.domain, "xn--")
    THEN Hit(acc, "Internationalized domain (potential homograph attack)", "homograph", 25)
    ELSE acc

\* domain.split('.').length - 2
SubdomainCount(domain) ==
    Len(SelectSeq(UpTo(Len(domain)), LAMBDA i : Ch(domain, i) = ".")) + 1 - 2

SubdomainRule(x, acc) ==
    IF SubdomainCount(x.domain) > 3
    THEN Hit(acc, "Excessive subdomains (" \o ToString(SubdomainCount(x.domain))
                    \o ") - possible impersonation", "subdomain-abuse", 15)
    ELSE acc

BrandRule(x, acc) ==
    LET b == FirstHit(SelectSeq(BRAND_DOMAINS,
                                  LAMBDA e : Includes(x.domain, e[1]) /\ ~EndsWith(x.domain, e[2])))
    IN  IF b # <<>>
        THEN Hit(acc, "Possible " \o b[1][1] \o " impersonation", "brand-impersonation", 40)
        ELSE acc

TrackerRule(x, acc) ==
    LET t == FirstHit(SelectSeq(TRACKING_DOMAINS,
                                  LAMBDA tracker : x.domain = tracker \/ EndsWith(x.domain, "." \o tracker)))
    IN  IF t # <<>>
        THEN Hit(acc, "Tracking domain: " \o t[1], "tracking", 5)
        ELSE acc

\* A cryptominer rule that knows the listed domains but not their subdomains.
MinerRule_exactOnly(x, acc) ==
    LET m == FirstHit(SelectSeq(CRYPTOMINER_DOMAINS, LAMBDA miner : x.domain = miner))
    IN  IF m # <<>>
        THEN Hit(acc, "Known cryptominer: " \o m[1], "cryptominer", 50)
        ELSE acc

MinerRule(x, acc) ==
    LET m == FirstHit(SelectSeq(CRYPTOMINER_DOMAINS,
                                  LAMBDA miner : x.domain = miner \/ EndsWith(x.domain, "." \o miner)))
    IN  IF m # <<>>
        THEN Hit(acc, "Known cryptominer: " \o m[1], "cryptominer", 50)
        ELSE acc

InsecureHttpRule(x, acc) ==
    IF x.url.protocol = "http:" /\ Len(x.foundKeywords) > 0
    THEN Hit(acc, "Sensitive operation over insecure HTTP", "insecure-http", 30)
    ELSE acc

\* A cross-origin rule that does not compare the domain with the origin.
CrossOriginRule_anyDomain(x, acc) ==
    IF /\ x.request.resourceType = "xhr" \/ x.request.resourceType = "fetch"
       /\ x.domain \notin Range(TRACKING_DOMAINS)
       /\ ~\E i \in DOMAIN TRACKING_DOMAINS : EndsWith(x.domain, TRACKING_DOMAINS[i])
    THEN Hit(acc, "Cross-origin API call to: " \o x.domain, "cross-origin", 10)
    ELSE acc

CrossOriginRule(x, acc) ==
    IF /\ x.request.resourceType = "xhr" \/ x.request.resourceType = "fetch"
       /\ x.domain # x.originalDomain
       /\ x.domain \notin Range(TRACKING_DOMAINS)
    THEN LET isKnownTracker ==
                 \E i \in DOMAIN TRACKING_DOMAINS : EndsWith(x.domain, TRACKING_DOMAINS[i])
         IN  IF ~isKnownTracker
             THEN Hit(acc, "Cross-origin API call to: " \o x.domain, "cross-origin", 10)
             ELSE acc
    ELSE acc

RedirectRule(x, acc) ==
    IF /\ x.request.url # x.request.url
       /\ x.request.status # Undefined
       /\ x.request.status[1] # 0
       /\ x.request.status[1] \in {301, 302, 303, 307, 308}
    THEN IF x.domain # x.originalDomain
         THEN Hit(acc, "Redirect to different domain: " \o x.domain, "redirect", 15)
         ELSE acc
    ELSE acc

\* What the rules read: the request, the origin, and the values the try block
\* computes first.
RuleContext(req, origin, url) ==
    [ request        |-> req,
      originalDomain |-> origin,
      url            |-> url,
      urlLower       |-> toLowerCase(req.url),
      domain         |-> toLowerCase(url.hostname),
      foundKeywords  |-> FoundKeywords(toLowerCase(req.url), origin) ]

\* The rules of the try block, in the order the code runs them.
Rules ==
    << "tld", "ip", "length", "keywords", "extension", "pattern", "encoding",
       "queryLength", "base64", "homograph", "subdomains", "brand", "tracker",
       "cryptominer", "insecureHttp", "crossOrigin", "redirect" >>

ApplyRule(name, x, acc) ==
    CASE name = "tld"          -> TldRule(x, acc)
      [] name = "ip"           -> IpRule(x, acc)
      [] name = "length"       -> LengthRule(x, acc)
      [] name = "keywords"     -> KeywordRule(x, acc)
      [] name = "extension"    -> ExtensionRule(x, acc)
      [] name = "pattern"      -> PatternRule(x, acc)
      [] name = "encoding"     -> EncodingRule(x, acc)
      [] name = "queryLength"  -> QueryLengthRule(x, acc)
      [] name = "base64"       -> Base64Rule(x, acc)
      [] name = "homograph"    -> HomographRule(x, acc)
      [] name = "subdomains"   -> SubdomainRule(x, acc)
      [] name = "brand"        -> BrandRule(x, acc)
      [] name = "tracker"      -> TrackerRule(x, acc)
      [] name = "cryptominer"  -> MinerRule(x, acc)
      [] name = "insecureHttp" -> InsecureHttpRule(x, acc)
      [] name = "crossOrigin"  -> CrossOriginRule(x, acc)
      [] name = "redirect"     -> RedirectRule(x, acc)

\* The rules one after the other, each on what the ones before it left.
RECURSIVE RunRules(_, _, _)
RunRules(rules, x, acc) ==
    IF rules = <<>> THEN acc
    ELSE RunRules(Tail(rules), x, ApplyRule(Head(rules), x, acc))

\* A try block that splits the URL into words before it parses it.
TryBlock_lateParse(req, origin) ==
    LET url == ParseUrl(req.url)
        x   == RuleContext(req, origin, url)
    IN  IF ~url.ok
        THEN [thrown |-> TRUE, acc |-> KeywordRule(x, EmptyAcc)]
        ELSE [thrown |-> FALSE, acc |-> RunRules(Rules, x, EmptyAcc)]

\* The try block: thrown tells whether it left through the catch, acc is what
\* it had accumulated by then.  new URL() is its first statement and the only
\* one that throws.
TryBlock(req, origin) ==
    LET url == ParseUrl(req.url)
    IN  IF ~url.ok
        THEN [thrown |-> TRUE, acc |-> EmptyAcc]
        ELSE [thrown |-> FALSE, acc |-> RunRules(Rules, RuleContext(req, origin, url), EmptyAcc)]

\* Risk levels whose thresholds are exclusive.
RiskLevel_exclusive(riskScore) ==
    IF riskScore > 50 THEN "critical"
    ELSE IF riskScore > 30 THEN "high"
    ELSE IF riskScore > 15 THEN "medium"
    ELSE "low"

\* The risk level of a risk score.
RiskLevel(riskScore) ==
    IF riskScore >= 50 THEN "critical"
    ELSE IF riskScore >= 30 THEN "high"
    ELSE IF riskScore >= 15 THEN "medium"
    ELSE "low"

\* analyzeRequest(request, originalDomain)
analyzeRequest(req, origin) ==
    LET t   == TryBlock(req, origin)
        acc == IF t.thrown THEN Hit(t.acc, "Malformed URL", "malformed", 10) ELSE t.acc
    IN  [ isSuspicious |-> acc.riskScore >= 15,
          reasons      |-> acc.reasons,
          riskLevel    |-> RiskLevel(acc.riskScore),
          categories   |-> acc.categories,
          riskScore    |-> acc.riskScore ]

(***************************************************************************)
(* analyzeAllRequests                                                      *)
(***************************************************************************)
\* Risk values with high and critical the wrong way round.
RiskValue_swapped(riskLevel) ==
    CASE riskLevel = "low"      -> 1
      [] riskLevel = "medium"   -> 2
      [] riskLevel = "high"     -> 4
      [] riskLevel = "critical" -> 3

\* { low: 1, medium: 2, high: 3, critical: 4 }[riskLevel]
RiskValue(riskLevel) ==
    CASE riskLevel = "low"      -> 1
      [] riskLevel = "medium"   -> 2
      [] riskLevel = "high"     -> 3
      [] riskLevel = "critical" -> 4

\* for (const cat of categories) categoryCounts[cat] = (categoryCounts[cat] || 0) + 1
RECURSIVE CountCategories(_, _)
CountCategories(counts, categories) ==
    IF categories = <<>> THEN counts
    ELSE LET cat == Head(categories)
             n   == IF cat \in DOMAIN counts THEN counts[cat] ELSE 0
         IN  CountCategories([k \in DOMAIN counts \cup {cat} |->
                                  IF k = cat THEN n + 1 ELSE counts[k]],
                             Tail(categories))

\* const analyzed = { ...request, analysis }
WithAnalysis(req, an) ==
    [ url |-> req.url, resourceType |-> req.resourceType, status |-> req.status,
      analysis |-> an ]

\* A round that keeps the risk of the last suspicious request.
Accumulate_lastRisk(l, req, an) ==
    LET analyzed == WithAnalysis(req, an)
        pushed   == [l EXCEPT !.analyzedRequests = Append(@, analyzed)]
    IN  IF an.isSuspicious
        THEN [pushed EXCEPT
                 !.suspiciousRequests = Append(@, analyzed),
                 !.totalRiskScore = @ + an.riskScore,
                 !.criticalCount = IF an.riskLevel = "critical" THEN @ + 1 ELSE @,
                 !.highCount = IF an.riskLevel = "high" THEN @ + 1 ELSE @,
                 !.categoryCounts = CountCategories(@, an.categories),
                 !.highestRisk = RiskValue(an.riskLevel)]
        ELSE pushed

\* A round that adds every request's score to the total.
Accumulate_totalOfAll(l, req, an) ==
    LET analyzed == WithAnalysis(req, an)
        pushed   == [l EXCEPT !.analyzedRequests = Append(@, analyzed),
                              !.totalRiskScore = @ + an.riskScore]
    IN  IF an.isSuspicious
        THEN [pushed EXCEPT
                 !.suspiciousRequests = Append(@, analyzed),
                 !.criticalCount = IF an.riskLevel = "critical" THEN @ + 1 ELSE @,
                 !.highCount = IF an.riskLevel = "high" THEN @ + 1 ELSE @,
                 !.categoryCounts = CountCategories(@, an.categories),
                 !.highestRisk = Max(@, RiskValue(an.riskLevel))]
        ELSE pushed

\* A round that ranks every request, suspicious or not.
Accumulate_riskOfAll(l, req, an) ==
    LET analyzed == WithAnalysis(req, an)
        pushed   == [l EXCEPT !.analyzedRequests = Append(@, analyzed),
                              !.highestRisk = Max(@, RiskValue(an.riskLevel))]
    IN  IF an.isSuspicious
        THEN [pushed EXCEPT
                 !.suspiciousRequests = Append(@, analyzed),
                 !.totalRiskScore = @ + an.riskScore,
                 !.criticalCount = IF an.riskLevel = "critical" THEN @ + 1 ELSE @,
                 !.highCount = IF an.riskLevel = "high" THEN @ + 1 ELSE @,
                 !.categoryCounts = CountCategories(@, an.categories)]
        ELSE pushed

\* One round of the for-of loop after the call of analyzeRequest, on the
\* locals l: an is the analysis of req.
Accumulate(l, req, an) ==
    LET analyzed == WithAnalysis(req, an)
        pushed   == [l EXCEPT !.analyzedRequests = Append(@, analyzed)]
    IN  IF an.isSuspicious
        THEN [pushed EXCEPT
                 !.suspiciousRequests = Append(@, analyzed),
                 !.totalRiskScore = @ + an.riskScore,
                 !.criticalCount = IF an.riskLevel = "critical" THEN @ + 1 ELSE @,
                 !.highCount = IF an.riskLevel = "high" THEN @ + 1 ELSE @,
                 !.categoryCounts = CountCategories(@, an.categories),
                 !.highestRisk = Max(@, RiskValue(an.riskLevel))]
        ELSE pushed

\* One round of the for-of loop.
LoopBody(l, req, origin) == Accumulate(l, req, analyzeRequest(req, origin))

\* A level table without safe: no suspicious request reads as low.
OverallRisk_noSafe(highestRisk) ==
    <<"low", "low", "medium", "high", "critical">>[highestRisk + 1]

\* ['safe', 'low', 'medium', 'high', 'critical'][highestRisk]
OverallRisk(highestRisk) ==
    <<"safe", "low", "medium", "high", "critical">>[highestRisk + 1]

\* A return statement that takes the suspicious requests to be the critical
\* and the high ones.
Return_noMedium(l, reqs) ==
    [ analyzedRequests   |-> l.analyzedRequests,
      suspiciousRequests |-> l.suspiciousRequests,
      summary |-> [ totalRequests   |-> Len(reqs),
                    suspiciousCount |-> l.criticalCount + l.highCount,
                    criticalCount   |-> l.criticalCount,
                    highCount       |-> l.highCount,
                    categories      |-> l.categoryCounts,
                    overallRisk     |-> OverallRisk(l.highestRisk),
                    totalRiskScore  |-> l.totalRiskScore ] ]

\* The return statement, from the locals l and the input list.
Return(l, reqs) ==
    [ analyzedRequests   |-> l.analyzedRequests,
      suspiciousRequests |-> l.suspiciousRequests,
      summary |-> [ totalRequests   |-> Len(reqs),
                    suspiciousCount |-> Len(l.suspiciousRequests),
                    criticalCount   |-> l.criticalCount,
                    highCount       |-> l.highCount,
                    categories      |-> l.categoryCounts,
                    overallRisk     |-> OverallRisk(l.highestRisk),
                    totalRiskScore  |-> l.totalRiskScore ] ]

\* The whole loop, from the locals l.
RECURSIVE Loop(_, _, _)
Loop(reqs, origin, l) ==
    IF reqs = <<>> THEN l
    ELSE Loop(Tail(reqs), origin, LoopBody(l, Head(reqs), origin))

\* The rounds of the loop for records whose analyses are known: analyses[i] is
\* what analyzeRequest returns for reqs[i].
RECURSIVE LoopOver(_, _, _)
LoopOver(reqs, analyses, l) ==
    IF reqs = <<>> THEN l
    ELSE LoopOver(Tail(reqs), Tail(analyses), Accumulate(l, Head(reqs), Head(analyses)))

\* analyzeAllRequests(requests, originalDomain)
analyzeAllRequests(reqs, origin) == Return(Loop(reqs, origin, EmptyLoop), reqs)

(***************************************************************************)
(* Classification: the sandbox captured a request of the page under scan,  *)
(* and analyzeAllRequests hands it to analyzeRequest.                      *)
(***************************************************************************)
\* Hostnames of captured requests.
Hosts ==
    { "example.com", "cdn.example.org", "free-gift.tk", "192.168.1.10",
      "xn--pypal-4ve.com", "a.b.c.d.e.example.net", "paypal.evil.com",
      "www.paypal.com", "stats.doubleclick.net", "heap.io", "notheap.io",
      "coinhive.com", "ws.coinhive.com", "Login.Example.org", "secure-login.xyz" }

\* Paths and queries of captured requests.
Tails ==
    { "/login", "/login/login", "/LOGIN/login/Verify",
      "/verify/account/secure/password/wallet/bonus",
      "/login/login/login/login/login/login",
      "/setup.exe", "/app.js?v=1", "/wp-admin/x", "/?f=../x",
      "/index.php?id=" \o Repeat("0a", 16),
      "/?q=" \o Repeat("Ab0+", 13),
      "/?d=" \o Repeat("%41", 11),
      "/?" \o Repeat("a=1&", MAX_QUERY_STRING_LENGTH \div 4 + 1),
      "/" \o Repeat("p/", MAX_URL_LENGTH \div 2),
      "/" \o Repeat("p/", EXTREME_URL_LENGTH \div 2) \o "login",
      "/?x=union  all select", "/?x=<script>", "/?x=eval (1)",
      "/?onload =x", "/?x=document.cookie", "/a b?q=c d" }

\* Request URLs that new URL() rejects.
MalformedUrls ==
    { "", "not a url", "//cdn.example.org/a", "/login/verify", "http://",
      "login-verify.tk/setup.exe", "http://exa mple.com/login" }

\* The URLs of captured requests.
Urls ==
    {scheme \o host \o "/" : scheme \in {"http://", "https://"}, host \in Hosts}
        \cup {scheme \o host \o tail : scheme \in {"http://", "https://"},
                                        host \in {"example.com", "cdn.example.org"},
                                        tail \in Tails}
        \cup {"data:text/html,<h1>login</h1>", "javascript:alert(1)", "HTTPS://EXAMPLE.ORG/Login",
              "http://coinhive.com/miner.js"}
        \cup MalformedUrls

ResourceTypes == {"script", "xhr", "fetch"}

\* request.status: absent, or the response status.
Statuses == {Undefined, Num(302)}

\* Hostnames of scanned pages.
Origins == {"example.com", "login.example.org"}

InitClassify ==
    /\ checks = NoChecks
    /\ score = 100
    /\ evaluated = <<>>
    /\ phase = "captured"
    /\ request \in [url : Urls, resourceType : ResourceTypes, status : Statuses]
    /\ originalDomain \in Origins
    /\ analysis = Absent
    /\ requests = <<>>
    /\ loop = EmptyLoop
    /\ result = Absent
    /\ NoScan
    /\ NoClient

\* const analysis = analyzeRequest(request, originalDomain)
Analyze ==
    /\ phase = "captured"
    /\ analysis' = analyzeRequest(request, originalDomain)
    /\ phase' = "analyzed"
    /\ UNCHANGED <<scoreVars, request, originalDomain, aggregateVars, scanVars, clientVars>>

NextClassify == Analyze

SpecClassify == InitClassify /\ [][NextClassify]_vars

(***************************************************************************)
(* Aggregation: runDockerScan hands the captured requests of one page to   *)
(* analyzeAllRequests, which goes through them one by one and returns.     *)
(***************************************************************************)
\* Captured requests: one that stays below the threshold (and is malformed),
\* a medium one, a high one, and two critical ones, one of which has two
\* rules with the same category.
CapturedUrls ==
    { "not a url", "https://free-gift.tk/", "http://192.168.1.10/",
      "https://coinhive.com/",
      "https://example.com/?q=" \o Repeat("Ab0+", MAX_QUERY_STRING_LENGTH \div 4 + 1) }

CapturedRequests == [url : CapturedUrls, resourceType : {"script"}, status : {Num(200)}]

\* The sequences over the set S of at most n elements.
RECURSIVE SeqsUpTo(_, _)
SeqsUpTo(S, n) ==
    IF n = 0 THEN {<<>>}
    ELSE LET shorter == SeqsUpTo(S, n - 1)
         IN  shorter \cup {Append(q, e) : q \in {t \in shorter : Len(t) = n - 1}, e \in S}

InitAggregate ==
    /\ checks = NoChecks
    /\ score = 100
    /\ evaluated = <<>>
    /\ phase = "looping"
    /\ request = NoRequest
    /\ originalDomain = "example.com"
    /\ analysis = Absent
    /\ requests \in SeqsUpTo(CapturedRequests, MaxRequests)
    /\ loop = EmptyLoop
    /\ result = Absent
    /\ NoScan
    /\ NoClient

\* One round of for (const request of requests)
Iterate ==
    /\ phase = "looping"
    /\ Len(loop.analyzedRequests) < Len(requests)
    /\ loop' = LoopBody(loop, requests[Len(loop.analyzedRequests) + 1], originalDomain)
    /\ UNCHANGED <<scoreVars, phase, originalDomain, classifyVars, requests, result, scanVars, clientVars>>

\* The statements after the loop.
ReturnSummary ==
    /\ phase = "looping"
    /\ Len(loop.analyzedRequests) = Len(requests)
    /\ result' = Return(loop, requests)
    /\ phase' = "returned"
    /\ UNCHANGED <<scoreVars, originalDomain, classifyVars, requests, loop, scanVars, clientVars>>

NextAggregate ==
    \/ Iterate
    \/ ReturnSummary

SpecAggregate == InitAggregate /\ [][NextAggregate]_vars

(***************************************************************************)
(* scanUrl: parses the URL, asks Safe Browsing first and returns at once   *)
(* when it reports a threat; otherwise runs the other probes in order and  *)
(* scores what they returned.                                              *)
(***************************************************************************)
\* A ProgressUpdate, without its message and data.
Update(step, status) == [step |-> step, status |-> status]

\* What awaiting a probe gives: it threw, or it returned data.
Thrown == [thrown |-> TRUE]

Returns(data) == [thrown |-> FALSE, data |-> data]

\* checkSafeBrowsing: safe without an API key, unsafe when the response has
\* matches, safe when it has none and when the request failed.
checkSafeBrowsing(apiKey, response) ==
    IF ~apiKey
    THEN [present |-> TRUE, isSafe |-> TRUE, threats |-> <<>>]
    ELSE IF response = "matches"
         THEN [present |-> TRUE, isSafe |-> FALSE, threats |-> <<"MALWARE">>]
         ELSE [present |-> TRUE, isSafe |-> TRUE, threats |-> <<>>]

\* What the Safe Browsing API answers: matches, no matches, or no answer.
Responses == {"matches", "none", "error"}

\* checkIpReputation's isSuspicious.
IpIsSuspicious(abuseConfidenceScore, totalReports) ==
    abuseConfidenceScore > 25 \/ totalReports > 10

\* The probes after Safe Browsing, in the order scanUrl calls them.
LaterProbes ==
    << "whois", "ssl", "geolocation", "reverseDns", "portScan", "ipReputation",
       "securityHeaders", "cookieSecurity", "sensitiveFiles",
       "versionDisclosure", "adminPanels" >>

\* The data a probe after Safe Browsing returns when its network calls
\* succeeded.
ProbeResults(name) ==
    CASE name = "whois" ->
           { [present |-> TRUE, ageInDays |-> a] : a \in {3, 400} }
      [] name = "ssl" ->
           { [present |-> TRUE, valid |-> v, daysUntilExpiry |-> Num(200),
              cipherStrength |-> "strong", tlsVersion |-> "TLSv1.3"] :
                v \in BOOLEAN }
      [] name = "geolocation" ->
           { [present |-> TRUE, ip |-> "93.184.216.34"] }
      [] name = "reverseDns" ->
           { [present |-> TRUE, matches |-> FALSE] }
      [] name = "portScan" ->
           { [present |-> TRUE, isSuspicious |-> TRUE] }
      [] name = "ipReputation" ->
           { [present |-> TRUE, abuseConfidenceScore |-> 80, totalReports |-> 150,
              isSuspicious |-> IpIsSuspicious(80, 150)] }
      [] name = "securityHeaders" ->
           { [present |-> TRUE, grade |-> "C"] }
      [] name = "cookieSecurity" ->
           { [present |-> TRUE, totalCookies |-> 2, secureCookies |-> 1,
              hasIssues |-> TRUE] }
      [] name = "sensitiveFiles" ->
           { checkSensitiveFiles(0, 1, 1) }
      [] name = "versionDisclosure" ->
           { [present |-> TRUE, hasDisclosure |-> TRUE, riskLevel |-> "high"] }
      [] name = "adminPanels" ->
           { checkAdminPanels(0, 1, 0) }

\* checkReverseDns when dns.reverse fails: no match, no hostnames.
ReverseDnsFailed == [present |-> TRUE, matches |-> FALSE]

\* checkPorts when no port answers: nothing open, nothing suspicious.
PortScanFailed == [present |-> TRUE, isSuspicious |-> FALSE]

\* checkIpReputation when the request fails: zeros, not suspicious.
IpReputationFailed ==
    [ present |-> TRUE, abuseConfidenceScore |-> 0, totalReports |-> 0,
      isSuspicious |-> FALSE ]

\* checkSecurityHeaders when the request fails: every header missing,
\* score 0, grade F.
SecurityHeadersFailed == [present |-> TRUE, grade |-> "F"]

\* checkCookieSecurity when the request fails: no cookies, no issues.
CookieSecurityFailed ==
    [present |-> TRUE, totalCookies |-> 0, secureCookies |-> 0, hasIssues |-> FALSE]

\* checkVersionDisclosure when the request fails: nothing disclosed.
VersionDisclosureFailed ==
    [present |-> TRUE, hasDisclosure |-> FALSE, riskLevel |-> "none"]

\* What a probe after Safe Browsing gives when its network call fails:
\* checkWhois, checkSsl and checkGeolocation throw; the others catch the
\* error, or count every request that failed as nothing found, and return
\* a result all the same.
FailureOutcome(name) ==
    CASE name = "whois"             -> Thrown
      [] name = "ssl"               -> Thrown
      [] name = "geolocation"       -> Thrown
      [] name = "reverseDns"        -> Returns(ReverseDnsFailed)
      [] name = "portScan"          -> Returns(PortScanFailed)
      [] name = "ipReputation"      -> Returns(IpReputationFailed)
      [] name = "securityHeaders"   -> Returns(SecurityHeadersFailed)
      [] name = "cookieSecurity"    -> Returns(CookieSecurityFailed)
      [] name = "sensitiveFiles"    -> Returns(checkSensitiveFiles(0, 0, 0))
      [] name = "versionDisclosure" -> Returns(VersionDisclosureFailed)
      [] name = "adminPanels"       -> Returns(checkAdminPanels(0, 0, 0))

\* What awaiting a probe after Safe Browsing can give, with whether its
\* network call failed.
ProbeOutcomes(name) ==
    { [failed |-> TRUE, outcome |-> FailureOutcome(name)] }
        \cup { [failed |-> FALSE, outcome |-> Returns(d)] : d \in ProbeResults(name) }

\* The status of the update scanUrl emits after a probe returned data.
ProbeStatus(name, data) ==
    CASE name = "whois" ->
           IF data.ageInDays < 7 THEN "error"
           ELSE IF data.ageInDays < 30 THEN "warning" ELSE "success"
      [] name = "ssl" ->
           IF ~data.valid THEN "error" ELSE "success"
      [] name = "geolocation" -> "success"
      [] name = "reverseDns" ->
           IF data.matches THEN "success" ELSE "warning"
      [] name = "portScan" ->
           IF data.isSuspicious THEN "warning" ELSE "success"
      [] name = "ipReputation" ->
           IF data.isSuspicious THEN "error" ELSE "success"
      [] name = "securityHeaders" ->
           IF data.grade \in {"F", "D"} THEN "error"
           ELSE IF data.grade = "C" THEN "warning" ELSE "success"
      [] name = "cookieSecurity" ->
           IF data.totalCookies = 0 THEN "success"
           ELSE IF data.hasIssues THEN "warning" ELSE "success"
      [] name = "sensitiveFiles" ->
           IF data.criticalCount > 0 THEN "error"
           ELSE IF data.hasVulnerabilities THEN "warning" ELSE "success"
      [] name = "versionDisclosure" ->
           IF data.riskLevel = "high" THEN "error"
           ELSE IF data.hasDisclosure THEN "warning" ELSE "success"
      [] name = "adminPanels" ->
           IF data.hasExposedPanels THEN "warning" ELSE "success"

\* The step scanUrl goes to after the step name: the three probes of the
\* server's address are inside if (serverIp), the last three inside
\* if (deepScan).
After(name, ip, deep) ==
    CASE name = "parse"             -> "safeBrowsing"
      [] name = "safeBrowsing"      -> "whois"
      [] name = "whois"             -> "ssl"
      [] name = "ssl"               -> "geolocation"
      [] name = "geolocation"       -> IF ip # "" THEN "reverseDns" ELSE "securityHeaders"
      [] name = "reverseDns"        -> "portScan"
      [] name = "portScan"          -> "ipReputation"
      [] name = "ipReputation"      -> "securityHeaders"
      [] name = "securityHeaders"   -> "cookieSecurity"
      [] name = "cookieSecurity"    -> IF deep THEN "sensitiveFiles" ELSE "complete"
      [] name = "sensitiveFiles"    -> "versionDisclosure"
      [] name = "versionDisclosure" -> "adminPanels"
      [] name = "adminPanels"       -> "complete"

\* results and the locals of scanUrl before it parsed the URL.
ScanStart ==
    [ checks   |-> NoChecks,
      score    |-> 100,
      serverIp |-> "",
      updates  |-> <<>>,
      invoked  |-> <<>>,
      failed   |-> {},
      pc       |-> "parse" ]

\* Step 1: new URL(url) inside try; an invalid URL ends the scan with score 0.
ParseStep(st, s) ==
    IF ParseUrl(s).ok
    THEN [st EXCEPT !.updates = Append(@, Update("parse", "success")),
                    !.pc = After("parse", st.serverIp, FALSE)]
    ELSE [st EXCEPT !.updates = Append(@, Update("parse", "error")),
                    !.score = 0,
                    !.pc = "returned"]

\* The threat branch that falls through to the next step instead of
\* scoring 0 and returning.
SafeBrowsingStep_noReturn(st, outcome) ==
    LET pending == Append(st.updates, Update("safeBrowsing", "pending"))
        called  == Append(st.invoked, "safeBrowsing")
    IN  IF outcome.thrown
        THEN [st EXCEPT !.updates = Append(pending, Update("safeBrowsing", "warning")),
                        !.invoked = called,
                        !.pc = After("safeBrowsing", st.serverIp, FALSE)]
        ELSE [st EXCEPT !.checks["safeBrowsing"] = outcome.data,
                        !.updates = Append(pending,
                            Update("safeBrowsing",
                                   IF outcome.data.isSafe THEN "success" ELSE "error")),
                        !.invoked = called,
                        !.pc = After("safeBrowsing", st.serverIp, FALSE)]

\* Step 2: the Safe Browsing check and its fail-fast return.
SafeBrowsingStep(st, outcome) ==
    LET pending == Append(st.updates, Update("safeBrowsing", "pending"))
        called  == Append(st.invoked, "safeBrowsing")
    IN  IF outcome.thrown
        THEN [st EXCEPT !.updates = Append(pending, Update("safeBrowsing", "warning")),
                        !.invoked = called,
                        !.pc = After("safeBrowsing", st.serverIp, FALSE)]
        ELSE IF ~outcome.data.isSafe
        THEN [st EXCEPT !.checks["safeBrowsing"] = outcome.data,
                        !.updates = pending \o << Update("safeBrowsing", "error"),
                                                  Update("complete", "error") >>,
                        !.score = 0,
                        !.invoked = called,
                        !.pc = "returned"]
        ELSE [st EXCEPT !.checks["safeBrowsing"] = outcome.data,
                        !.updates = Append(pending, Update("safeBrowsing", "success")),
                        !.invoked = called,
                        !.pc = After("safeBrowsing", st.serverIp, FALSE)]

\* A catch block that reports nothing and ends the scan where it stands.
ProbeStep_throwStops(st, name, outcome, deep) ==
    LET pending == Append(st.updates, Update(name, "pending"))
        called  == Append(st.invoked, name)
    IN  IF outcome.thrown
        THEN [st EXCEPT !.updates = pending,
                        !.invoked = called,
                        !.pc = "returned"]
        ELSE LET ip == IF name = "geolocation" THEN outcome.data.ip ELSE st.serverIp
             IN  [st EXCEPT !.checks[name] = outcome.data,
                            !.serverIp = ip,
                            !.updates = Append(pending,
                                Update(name, ProbeStatus(name, outcome.data))),
                            !.invoked = called,
                            !.pc = After(name, ip, deep)]

\* Steps 3 to 13: the pending update, the probe, its result stored under
\* its name and reported, or a warning when the probe threw.
ProbeStep(st, name, outcome, deep) ==
    LET pending == Append(st.updates, Update(name, "pending"))
        called  == Append(st.invoked, name)
    IN  IF outcome.thrown
        THEN [st EXCEPT !.updates = Append(pending, Update(name, "warning")),
                        !.invoked = called,
                        !.pc = After(name, st.serverIp, deep)]
        ELSE LET ip == IF name = "geolocation" THEN outcome.data.ip ELSE st.serverIp
             IN  [st EXCEPT !.checks[name] = outcome.data,
                            !.serverIp = ip,
                            !.updates = Append(pending,
                                Update(name, ProbeStatus(name, outcome.data))),
                            !.invoked = called,
                            !.pc = After(name, ip, deep)]

\* The final step: results.score = calculateScore(results), reported.
CompleteStep(st) ==
    LET finalScore == calculateScore(st.checks).score
    IN  [st EXCEPT !.score = finalScore,
                   !.updates = Append(@,
                       Update("complete",
                              IF finalScore >= 70 THEN "success"
                              ELSE IF finalScore >= 40 THEN "warning" ELSE "error")),
                   !.pc = "returned"]

\* The URLs scanUrl is called with: one that parses and one that does not.
ScanTargets == {"https://example.com/", "not a url"}

InitScan ==
    /\ checks = ScanStart.checks
    /\ score = ScanStart.score
    /\ evaluated = <<>>
    /\ phase = "scanning"
    /\ request = NoRequest
    /\ originalDomain = ""
    /\ analysis = Absent
    /\ requests = <<>>
    /\ loop = EmptyLoop
    /\ result = Absent
    /\ site \in ScanTargets
    /\ deepScan \in BOOLEAN
    /\ pc = ScanStart.pc
    /\ serverIp = ScanStart.serverIp
    /\ updates = ScanStart.updates
    /\ invoked = ScanStart.invoked
    /\ failed = ScanStart.failed
    /\ NoClient

\* results and the locals of scanUrl where it stands.
ScanState ==
    [ checks   |-> checks,
      score    |-> score,
      serverIp |-> serverIp,
      updates  |-> updates,
      invoked  |-> invoked,
      failed   |-> failed,
      pc       |-> pc ]

\* scanUrl moves on to the state st; with pc "returned" it has returned
\* results.
Becomes(st) ==
    /\ checks' = st.checks
    /\ score' = st.score
    /\ serverIp' = st.serverIp
    /\ updates' = st.updates
    /\ invoked' = st.invoked
    /\ failed' = st.failed
    /\ pc' = st.pc
    /\ phase' = IF st.pc = "returned" THEN "scanned" ELSE phase
    /\ UNCHANGED <<evaluated, originalDomain, classifyVars, aggregateVars, site, deepScan, clientVars>>

Parse ==
    /\ phase = "scanning"
    /\ pc = "parse"
    /\ Becomes(ParseStep(ScanState, site))

SafeBrowsing ==
    /\ phase = "scanning"
    /\ pc = "safeBrowsing"
    /\ \E apiKey \in BOOLEAN, response \in Responses :
          LET st == SafeBrowsingStep(ScanState, Returns(checkSafeBrowsing(apiKey, response)))
          IN  Becomes([st EXCEPT !.failed =
                          IF apiKey /\ response = "error"
                          THEN @ \cup {"safeBrowsing"} ELSE @])

Probe(name) ==
    /\ phase = "scanning"
    /\ pc = name
    /\ \E o \in ProbeOutcomes(name) :
          LET st == ProbeStep(ScanState, name, o.outcome, deepScan)
          IN  Becomes([st EXCEPT !.failed = IF o.failed THEN @ \cup {name} ELSE @])

Complete ==
    /\ phase = "scanning"
    /\ pc = "complete"
    /\ Becomes(CompleteStep(ScanState))

NextScan ==
    \/ Parse
    \/ SafeBrowsing
    \/ \E i \in 1..Len(LaterProbes) : Probe(LaterProbes[i])
    \/ Complete

SpecScan == InitScan /\ [][NextScan]_vars

(***************************************************************************)
(* The server's start-scan handler and the LinkScanner component.  The     *)
(* handler runs scanUrl and emits each of its updates on the socket the    *)
(* request came in on; LinkScanner starts scans from its button, from the  *)
(* Enter key and from a scanned QR code, and follows the updates.          *)
(***************************************************************************)
\* The largest number of start-scan events LinkScanner emits.
MaxScans == 2

\* The largest number of times the socket connects.
MaxConnects == 2

\* What the network gives the probes of one scan: Safe Browsing answers
\* with a match, or every call fails.  ("up", where every call succeeds and
\* finds no threat, is a world of RunScan that no scan here runs in.)
Worlds == {"threat", "down"}

\* What awaiting checkSafeBrowsing gives in a world (the API key is set).
SafeBrowsingIn(world) ==
    Returns(checkSafeBrowsing(TRUE,
                              CASE world = "up"     -> "none"
                                [] world = "threat" -> "matches"
                                [] world = "down"   -> "error"))

\* What awaiting a later probe gives in a world.
OutcomeIn(world, name) ==
    IF world = "down"
    THEN FailureOutcome(name)
    ELSE Returns(CHOOSE d \in ProbeResults(name) : TRUE)

\* scanUrl from the state st to its return.
RECURSIVE RunScan(_, _, _, _)
RunScan(st, s, deep, world) ==
    IF st.pc = "returned" THEN st
    ELSE RunScan(CASE st.pc = "parse"        -> ParseStep(st, s)
                   [] st.pc = "safeBrowsing" -> SafeBrowsingStep(st, SafeBrowsingIn(world))
                   [] st.pc = "complete"     -> CompleteStep(st)
                   [] OTHER -> ProbeStep(st, st.pc, OutcomeIn(world, st.pc), deep),
                 s, deep, world)

\* await scanUrl(url, onProgress, deepScan)
scanUrl(s, deep, world) == RunScan(ScanStart, s, deep, world)

\* The updates ups in the runs scanUrl emits them in without giving up
\* control: it awaits a probe after each pending update, and nowhere else.
RECURSIVE Segments(_)
Segments(ups) ==
    IF ups = <<>> THEN <<>>
    ELSE LET n == IF \E i \in DOMAIN ups : ups[i].status = "pending"
                  THEN CHOOSE i \in DOMAIN ups :
                           /\ ups[i].status = "pending"
                           /\ \A j \in 1..(i - 1) : ups[j].status # "pending"
                  ELSE Len(ups)
         IN  <<SubSeq(ups, 1, n)>> \o Segments(SubSeq(ups, n + 1, Len(ups)))

\* The start-scan handler of the server for the event msg on the socket id:
\* deepScan is data.deepScan === true, and scanUrl's updates are emitted as
\* scan-progress, run by run.  by is what the sender's state was.
startScan(msg, id, world) ==
    LET deep == msg.data.deepScan = <<TRUE>>
        run  == scanUrl(msg.data.url, deep, world)
    IN  [ socket   |-> id,
          url      |-> msg.data.url,
          deepScan |-> deep,
          script   |-> Segments(run.updates),
          invoked  |-> run.invoked,
          emitted  |-> 0,
          by       |-> msg.by ]

\* The handler run for each of the events msgs, in order; the scan that
\* becomes the k-th scan of the server runs in the world worlds[k].
RECURSIVE Started(_, _, _, _)
Started(sc, msgs, id, worlds) ==
    IF msgs = <<>> THEN sc
    ELSE Started(Append(sc, startScan(Head(msgs), id, worlds[Len(sc) + 1])),
                 Tail(msgs), id, worlds)

\* String.prototype.trim
Trim(s) ==
    LET i == SkipWhitespace(s, 1)
    IN  IF i > Len(s) THEN ""
        ELSE LET j == CHOOSE j \in i..Len(s) :
                          /\ Ch(s, j) \notin Whitespace
                          /\ \A k \in (j + 1)..Len(s) : Ch(s, k) \in Whitespace
             IN  SubSeq(s, i, j)

\* https:// is put before an input that does not start with http:// or
\* https://, in any case of letters.
normalizeUrl(inputUrl) ==
    LET normalized == Trim(inputUrl)
        lower      == toLowerCase(normalized)
    IN  IF At(lower, 1, "http://") \/ At(lower, 1, "https://")
        THEN normalized
        ELSE "https://" \o normalized

\* The list progressUpdates, kept as its length, its last element (none
\* in the empty list), the scans its scan-progress elements came from, and
\* the number of connection-lost elements.
NoUpdates == [n |-> 0, last |-> <<>>, scans |-> {}, lost |-> 0]

\* [...prev, update] for the update u of the k-th scan.
WithUpdate(prev, u, k) ==
    [prev EXCEPT !.n = @ + 1, !.last = <<u>>, !.scans = @ \cup {k}]

\* The connection-lost update of the disconnect handler.
ConnectionLost == Update("error", "error")

\* [...prev, { step: 'error', message: 'Connection lost during scan', ... }]
WithConnectionLost(prev) ==
    [prev EXCEPT !.n = @ + 1, !.last = <<ConnectionLost>>, !.lost = @ + 1]

\* LinkScanner after its first render; initialUrl is "" for null.
Mounted(initialUrl) ==
    [ url             |-> "",
      isScanning      |-> FALSE,
      isConnected     |-> FALSE,
      progressUpdates |-> NoUpdates,
      reportData      |-> FALSE,
      isFromQR        |-> FALSE,
      deepScan        |-> FALSE,
      hasConsent      |-> FALSE,
      hasAutoScanned  |-> FALSE,
      initialUrl      |-> initialUrl ]

\* The socket the first effect creates for the component state ls: not yet
\* connected, its handlers closed over the isScanning of that render, with
\* nothing waiting to be sent.  id counts the connections made so far.
Subscribed(ls, id) ==
    [ id         |-> id,
      connected  |-> FALSE,
      isScanning |-> ls.isScanning,
      sendBuffer |-> <<>> ]

\* A start-scan event, with the state of the component that emitted it.
StartScanEvent(data, ls, auto) ==
    [ data |-> data,
      by   |-> [ deepScan   |-> ls.deepScan,
                 hasConsent |-> ls.hasConsent,
                 isScanning |-> ls.isScanning,
                 auto       |-> auto ] ]

\* The disconnect handler of the socket sock.
onDisconnect(ls, sock) ==
    IF sock.isScanning
    THEN [ls EXCEPT !.isConnected = FALSE,
                    !.isScanning = FALSE,
                    !.progressUpdates = WithConnectionLost(@)]
    ELSE [ls EXCEPT !.isConnected = FALSE]

\* The second effect, run when initialUrl or isConnected changed: what the
\* component becomes and what it emits.
autoScan(ls) ==
    IF ls.initialUrl # "" /\ ls.isConnected /\ ~ls.hasAutoScanned
    THEN [ ls   |-> [ls EXCEPT !.hasAutoScanned = TRUE,
                               !.url = ls.initialUrl,
                               !.isFromQR = TRUE,
                               !.isScanning = TRUE,
                               !.reportData = FALSE,
                               !.progressUpdates = NoUpdates],
           emit |-> << StartScanEvent([url |-> ls.initialUrl, deepScan |-> Undefined],
                                      ls, TRUE) >> ]
    ELSE [ls |-> ls, emit |-> <<>>]

\* A handleScan that asks for a deep scan on the toggle alone.
handleScan_noConsent(ls) ==
    IF ls.url = "" THEN [ls |-> ls, emit |-> <<>>]
    ELSE LET normalizedUrl == normalizeUrl(ls.url)
         IN  [ ls   |-> [ls EXCEPT !.url = normalizedUrl,
                                   !.hasAutoScanned = FALSE,
                                   !.isFromQR = FALSE,
                                   !.isScanning = TRUE,
                                   !.reportData = FALSE,
                                   !.progressUpdates = NoUpdates],
               emit |-> << StartScanEvent([url |-> normalizedUrl,
                                           deepScan |-> <<ls.deepScan>>],
                                          ls, FALSE) >> ]

\* handleScan: what the component becomes and what it emits.
handleScan(ls) ==
    IF ls.url = "" THEN [ls |-> ls, emit |-> <<>>]
    ELSE LET normalizedUrl == normalizeUrl(ls.url)
         IN  [ ls   |-> [ls EXCEPT !.url = normalizedUrl,
                                   !.hasAutoScanned = FALSE,
                                   !.isFromQR = FALSE,
                                   !.isScanning = TRUE,
                                   !.reportData = FALSE,
                                   !.progressUpdates = NoUpdates],
               emit |-> << StartScanEvent([url |-> normalizedUrl,
                                           deepScan |-> <<ls.deepScan /\ ls.hasConsent>>],
                                          ls, FALSE) >> ]

\* The scan-progress handler for the update u of the k-th scan.  On the
\* complete update it calls onScanComplete, which is clearScannedUrl of App.
onScanProgress(ls, u, k) ==
    LET shown == [ls EXCEPT !.progressUpdates = WithUpdate(@, u, k)]
    IN  IF u.step = "complete"
        THEN [shown EXCEPT !.reportData = TRUE, !.isScanning = FALSE, !.initialUrl = ""]
        ELSE shown

\* The scan-progress handler for each of the updates ups, in order.
RECURSIVE onScanProgressAll(_, _, _)
onScanProgressAll(ls, ups, k) ==
    IF ups = <<>> THEN ls
    ELSE onScanProgressAll(onScanProgress(ls, Head(ups), k), Tail(ups), k)

\* What is typed into the url field, and what a QR code can hold.
UrlInputs == {" example.com", "exa mple.com"}

QrUrls == {"https://example.com/", "not a url"}

InitClient ==
    /\ checks = NoChecks
    /\ score = 100
    /\ evaluated = <<>>
    /\ phase = "mounted"
    /\ request = NoRequest
    /\ originalDomain = ""
    /\ analysis = Absent
    /\ requests = <<>>
    /\ loop = EmptyLoop
    /\ result = Absent
    /\ NoScan
    /\ \E initialUrl \in {""} \cup QrUrls :
          /\ linkScanner = Mounted(initialUrl)
          /\ socket = Subscribed(Mounted(initialUrl), 0)
    /\ scans = <<>>
    /\ qrScanner = Absent

\* The other parts of the model stay as they are.
ClientOnly ==
    UNCHANGED <<scoreVars, phase, originalDomain, classifyVars, aggregateVars, scanVars, qrScanner>>

\* socket.emit('start-scan', ...) for each of msgs: the server handles the
\* events when the socket is connected, else they wait in the send buffer.
Emit(sock, msgs) ==
    IF sock.connected
    THEN /\ \E worlds \in [1..MaxScans -> Worlds] :
               scans' = Started(scans, msgs, sock.id, worlds)
         /\ socket' = sock
    ELSE /\ scans' = scans
         /\ socket' = [sock EXCEPT !.sendBuffer = @ \o msgs]

\* The number of start-scan events emitted so far.
Emitted == Len(scans) + Len(socket.sendBuffer)

\* The socket connects: the buffered events are sent, the connect handler
\* sets isConnected, and the second effect runs.
Connect ==
    /\ ~socket.connected
    /\ socket.id < MaxConnects
    /\ LET sock == [socket EXCEPT !.id = @ + 1, !.connected = TRUE, !.sendBuffer = <<>>]
           auto == autoScan([linkScanner EXCEPT !.isConnected = TRUE])
       IN  /\ Emitted + Len(auto.emit) <= MaxScans
           /\ linkScanner' = auto.ls
           /\ Emit(sock, socket.sendBuffer \o auto.emit)
    /\ ClientOnly

\* The connection is lost: the disconnect handler runs.
Disconnect ==
    /\ socket.connected
    /\ linkScanner' = onDisconnect(linkScanner, socket)
    /\ socket' = [socket EXCEPT !.connected = FALSE]
    /\ UNCHANGED scans
    /\ ClientOnly

\* onChange of the url field.
TypeUrl ==
    /\ Emitted < MaxScans
    /\ \E text \in UrlInputs :
          /\ linkScanner.url # text
          /\ linkScanner' = [linkScanner EXCEPT !.url = text]
    /\ UNCHANGED <<socket, scans>>
    /\ ClientOnly

\* onChange of the deep-scan toggle.
ToggleDeepScan ==
    /\ Emitted < MaxScans
    /\ linkScanner' =
          IF linkScanner.deepScan
          THEN [linkScanner EXCEPT !.deepScan = FALSE, !.hasConsent = FALSE]
          ELSE [linkScanner EXCEPT !.deepScan = TRUE]
    /\ UNCHANGED <<socket, scans>>
    /\ ClientOnly

\* onChange of the consent box, which is rendered while deepScan is set.
ToggleConsent ==
    /\ Emitted < MaxScans
    /\ linkScanner.deepScan
    /\ linkScanner' = [linkScanner EXCEPT !.hasConsent = ~@]
    /\ UNCHANGED <<socket, scans>>
    /\ ClientOnly

\* onClick of the scan button, disabled while isScanning or without a url.
ClickScan ==
    /\ Emitted < MaxScans
    /\ ~(linkScanner.isScanning \/ linkScanner.url = "")
    /\ linkScanner' = handleScan(linkScanner).ls
    /\ Emit(socket, handleScan(linkScanner).emit)
    /\ ClientOnly

\* onKeyDown of the url field with the Enter key.
PressEnter ==
    /\ Emitted < MaxScans
    /\ linkScanner.url # ""
    /\ linkScanner' = handleScan(linkScanner).ls
    /\ Emit(socket, handleScan(linkScanner).emit)
    /\ ClientOnly

\* The k-th scan emits its next run of updates; the component handles them
\* when the socket of the scan is still the connected one.  Clearing a scanned URL
\* renders App again, which gives LinkScanner a new onScanComplete: the
\* first effect is cleaned up (socket.disconnect()) and run again.
Progress(k) ==
    /\ k \in DOMAIN scans
    /\ scans[k].emitted < Len(scans[k].script)
    /\ scans' = [scans EXCEPT ![k].emitted = @ + 1]
    /\ LET ups == scans[k].script[scans[k].emitted + 1]
       IN  IF scans[k].socket = socket.id /\ socket.connected
           THEN LET handled == onScanProgressAll(linkScanner, ups, k)
                IN  IF handled.initialUrl # linkScanner.initialUrl
                    THEN /\ linkScanner' = onDisconnect(handled, socket)
                         /\ socket' = Subscribed(handled, socket.id)
                    ELSE /\ linkScanner' = handled
                         /\ UNCHANGED socket
           ELSE UNCHANGED <<linkScanner, socket>>
    /\ ClientOnly

NextClient ==
    \/ Connect
    \/ Disconnect
    \/ TypeUrl
    \/ ToggleDeepScan
    \/ ToggleConsent
    \/ ClickScan
    \/ PressEnter
    \/ \E k \in 1..MaxScans : Progress(k)

SpecClient == InitClient /\ [][NextClient]_vars

\* Every probe resolves or rejects in the end, so that a scan that has
\* updates left to emit emits them.
SpecClientFair == SpecClient /\ \A k \in 1..MaxScans : WF_vars(Progress(k))

(***************************************************************************)
(* Properties of calculateScore.                                           *)
(***************************************************************************)
Scored == phase = "scored"

\* The running total calculateScore holds before its final clamp.
PreClamp(c) == RunSteps(ScoreSteps, c, 100)

\* The checks map c without the result of check `name`.
Without(c, name) == [c EXCEPT ![name] = Absent]

\* All orders of the elements of the set S.
Perms(S) ==
    { p \in [1..Cardinality(S) -> S] : \A x \in S : \E i \in DOMAIN p : p[i] = x }

\* The rows of the deduction table, one operator per check.
RowWhois(c) ==
    IF ~c.whois.present THEN 0
    ELSE IF c.whois.ageInDays < 7 THEN 40
    ELSE IF c.whois.ageInDays < 30 THEN 20
    ELSE IF c.whois.ageInDays < 90 THEN 10
    ELSE 0

RowCertificate(c) ==
    IF ~c.ssl.present THEN 20
    ELSE IF ~c.ssl.valid THEN 30
    ELSE IF c.ssl.daysUntilExpiry # Undefined /\ c.ssl.daysUntilExpiry[1] < 7 THEN 15
    ELSE 0

RowCipher(c) ==
    IF c.ssl.present /\ c.ssl.cipherStrength = "weak" THEN 20
    ELSE IF c.ssl.present /\ c.ssl.cipherStrength = "moderate" THEN 5
    ELSE 0

RowTls(c) ==
    IF c.ssl.present /\ c.ssl.tlsVersion \notin {"", "TLSv1.2", "TLSv1.3"} THEN 15 ELSE 0

RowReverseDns(c) == IF c.reverseDns.present /\ ~c.reverseDns.matches THEN 5 ELSE 0

RowPortScan(c) == IF c.portScan.present /\ c.portScan.isSuspicious THEN 15 ELSE 0

RowAbuse(c) ==
    IF ~c.ipReputation.present THEN 0
    ELSE IF c.ipReputation.abuseConfidenceScore > 75 THEN 40
    ELSE IF c.ipReputation.abuseConfidenceScore > 50 THEN 25
    ELSE IF c.ipReputation.abuseConfidenceScore > 25 THEN 10
    ELSE 0

RowReports(c) ==
    IF ~c.ipReputation.present THEN 0
    ELSE IF c.ipReputation.totalReports > 100 THEN 15
    ELSE IF c.ipReputation.totalReports > 50 THEN 10
    ELSE IF c.ipReputation.totalReports > 10 THEN 5
    ELSE 0

RowSandboxRequests(d) ==
    IF d.suspiciousRequests > 5 THEN 30
    ELSE IF d.suspiciousRequests > 2 THEN 20
    ELSE IF d.suspiciousRequests > 0 THEN 10
    ELSE 0

RowSandboxDomains(d) ==
    IF d.thirdPartyDomains > 20 THEN 10
    ELSE IF d.thirdPartyDomains > 10 THEN 5
    ELSE 0

RowSandboxFailed(d) == IF ~d.success THEN 5 ELSE 0

\* The three sandbox rows applied independently of each other.
SandboxStacked(c) ==
    IF ~c.dockerScan.present THEN 0
    ELSE RowSandboxFailed(c.dockerScan) + RowSandboxRequests(c.dockerScan)
         + RowSandboxDomains(c.dockerScan)

\* The sandbox rows with the two tiers applied to a completed scan only.
SandboxExclusive(c) ==
    IF ~c.dockerScan.present THEN 0
    ELSE IF ~c.dockerScan.success THEN 5
    ELSE RowSandboxRequests(c.dockerScan) + RowSandboxDomains(c.dockerScan)

RowHeaders(c) ==
    IF ~c.securityHeaders.present THEN 0
    ELSE CASE c.securityHeaders.grade = "F" -> 20
           [] c.securityHeaders.grade = "D" -> 15
           [] c.securityHeaders.grade = "C" -> 10
           [] c.securityHeaders.grade = "B" -> 5
           [] OTHER -> 0

RowCookies(c) ==
    IF ~(c.cookieSecurity.present /\ c.cookieSecurity.hasIssues) THEN 0
    ELSE IF c.cookieSecurity.totalCookies = 0 THEN 0
    ELSE IF 2 * c.cookieSecurity.secureCookies < c.cookieSecurity.totalCookies THEN 10
    ELSE IF c.cookieSecurity.secureCookies < c.cookieSecurity.totalCookies THEN 5
    ELSE 0

RowSensitiveFiles(c) ==
    IF ~(c.sensitiveFiles.present /\ c.sensitiveFiles.hasVulnerabilities) THEN 0
    ELSE 25 * c.sensitiveFiles.criticalCount + 15 * c.sensitiveFiles.highCount
         + 5 * (c.sensitiveFiles.exposedFiles - c.sensitiveFiles.criticalCount
                - c.sensitiveFiles.highCount)

RowVersion(c) ==
    IF ~(c.versionDisclosure.present /\ c.versionDisclosure.hasDisclosure) THEN 0
    ELSE IF c.versionDisclosure.riskLevel = "high" THEN 15
    ELSE IF c.versionDisclosure.riskLevel = "medium" THEN 8
    ELSE 3

RowAdmin(c) ==
    IF ~(c.adminPanels.present /\ c.adminPanels.hasExposedPanels) THEN 0
    ELSE 10 * c.adminPanels.nDebug + 3 * c.adminPanels.nAdmin

\* The table's rows other than the sandbox rows, summed.
TableOther(c) ==
    RowWhois(c) + RowCertificate(c) + RowCipher(c) + RowTls(c) + RowReverseDns(c)
    + RowPortScan(c) + RowAbuse(c) + RowReports(c) + RowHeaders(c) + RowCookies(c)
    + RowSensitiveFiles(c) + RowVersion(c) + RowAdmin(c)

\* The blocks that can change the running total for c, and the other blocks.
ActiveSteps(c) == (Present(c) \cup {"ssl"}) \cap {ScoreSteps[i] : i \in DOMAIN ScoreSteps}

IdleSteps(c) == SelectSeq(ScoreSteps, LAMBDA n : n \notin ActiveSteps(c))

\* C1: every score calculateScore returns lies between 0 and 100.
C1_ScoreInRange == Scored => score \in 0..100

\* C1 witness: a scored result whose running total fell below 0 and was clamped.
C1_Witness == Scored /\ ~IsBlacklisted(checks) /\ PreClamp(checks) < 0 /\ score = 0

\* C2: an unsafe Safe Browsing verdict gives score 0 whatever the other checks
\* hold, and no deduction block is evaluated.
C2_FailFast == (Scored /\ IsBlacklisted(checks)) => (score = 0 /\ evaluated = <<>>)

\* C2 witness: a blacklisted result that also holds another check, scored.
C2_Witness ==
    /\ Scored
    /\ IsBlacklisted(checks)
    /\ Present(checks) # {"safeBrowsing"}
    /\ score = 0

\* C3 as stated: an empty checks map scores 100.
C3_Original == (Scored /\ Present(checks) = {}) => score = 100

\* C3 as amended: an empty checks map scores 80, the missing certificate
\* costing 20.
C3_EmptyScores80 == (Scored /\ Present(checks) = {}) => score = 80

\* C3 witness: the empty checks map, scored.
C3_Witness == Scored /\ Present(checks) = {} /\ evaluated = ScoreSteps

CleanCertificate ==
    [ present |-> TRUE, valid |-> TRUE, daysUntilExpiry |-> Undefined,
      cipherStrength |-> "strong", tlsVersion |-> "" ]

\* The certificate of scenario B: valid, weak cipher, nothing else given.
ScenarioBCertificate ==
    [ present |-> TRUE, valid |-> TRUE, daysUntilExpiry |-> Undefined,
      cipherStrength |-> "weak", tlsVersion |-> "" ]

\* C6: whois age 3 with a valid weak-cipher certificate scores 40; the cipher
\* and TLS deductions apply only to a present certificate and stack with its
\* invalid or expiring-soon deduction; an absent certificate costs exactly 20.
C6_CertificateRows ==
    /\ (Scored /\ Present(checks) = {"whois", "ssl"} /\ checks.whois.ageInDays = 3
          /\ checks.ssl = ScenarioBCertificate) => score = 40
    /\ (Scored /\ ~IsBlacklisted(checks)) =>
          score = Max(0, Min(100, PreClamp([checks EXCEPT !["ssl"] = CleanCertificate])
                                   - (RowCertificate(checks) + RowCipher(checks)
                                      + RowTls(checks))))

\* C6 witness: scenario B, scored 40.
C6_Witness ==
    /\ Scored
    /\ Present(checks) = {"whois", "ssl"}
    /\ checks.whois.ageInDays = 3
    /\ checks.ssl = ScenarioBCertificate
    /\ score = 40

\* C7 as stated: sensitiveFiles with 2 critical, 1 high and 4 exposed files
\* deducts 70 and leaves a pre-clamp score of 30.
C7_Original ==
    (Scored /\ Present(checks) = {"sensitiveFiles"}
       /\ checks.sensitiveFiles = checkSensitiveFiles(2, 1, 1)) =>
        (PreClamp(checks) = 30 /\ score = 30)

\* C7 as amended: a sensitiveFiles result flagged hasVulnerabilities deducts
\* 25 per critical, 15 per high and 5 per other exposed file, on top of the
\* other checks' deductions: with 2 critical, 1 high and 4 exposed files the
\* deduction is 70, and a checks map holding nothing else scores 10, the
\* missing certificate costing another 20.
C7_SensitiveFiles ==
    /\ (Scored /\ Present(checks) = {"sensitiveFiles"}
          /\ checks.sensitiveFiles = checkSensitiveFiles(2, 1, 1)) =>
           (PreClamp(checks) = 10 /\ score = 10)
    /\ (Scored /\ ~IsBlacklisted(checks) /\ checks.sensitiveFiles.present
          /\ checks.sensitiveFiles.hasVulnerabilities) =>
           score = Max(0, Min(100, PreClamp(Without(checks, "sensitiveFiles"))
                                    - 25 * checks.sensitiveFiles.criticalCount
                                    - 15 * checks.sensitiveFiles.highCount
                                    - 5 * (checks.sensitiveFiles.exposedFiles
                                           - checks.sensitiveFiles.criticalCount
                                           - checks.sensitiveFiles.highCount)))

\* C7 witness: the scenario's sensitiveFiles result alone, scored.
C7_Witness ==
    /\ Scored
    /\ Present(checks) = {"sensitiveFiles"}
    /\ checks.sensitiveFiles = checkSensitiveFiles(2, 1, 1)
    /\ score = 10

(***************************************************************************)
(* Properties of analyzeRequest.                                           *)
(***************************************************************************)
Analyzed == phase = "analyzed"

WellFormed == ParseUrl(request.url).ok

\* What the rules read of the request under analysis.
Context == RuleContext(request, originalDomain, ParseUrl(request.url))

\* The rule fires on this request: run alone, it leaves a reason.
Triggered(name) == ApplyRule(name, Context, EmptyAcc).reasons # <<>>

\* The distinct keywords of the URL that are no part of the origin's name.
CountedKeywords ==
    {w \in Range(SplitWords(toLowerCase(request.url))) :
        w \in SUSPICIOUS_KEYWORDS /\ ~Includes(originalDomain, w)}

\* The score column of the rule table.
TableDelta(name) ==
    CASE name = "tld"          -> 15
      [] name = "ip"           -> 30
      [] name = "length"       -> IF Len(request.url) > 1000 THEN 25 ELSE 10
      [] name = "keywords"     -> Min(5 * Cardinality(CountedKeywords), 25)
      [] name = "extension"    -> 35
      [] name = "pattern"      -> 30
      [] name = "encoding"     -> 20
      [] name = "queryLength"  -> 25
      [] name = "base64"       -> 20
      [] name = "homograph"    -> 25
      [] name = "subdomains"   -> 15
      [] name = "brand"        -> 40
      [] name = "tracker"      -> 5
      [] name = "cryptominer"  -> 50
      [] name = "insecureHttp" -> 30
      [] name = "crossOrigin"  -> 10
      [] name = "redirect"     -> 15

TriggeredRules == SelectSeq(Rules, Triggered)

RECURSIVE TableSum(_)
TableSum(names) ==
    IF names = <<>> THEN 0 ELSE TableDelta(Head(names)) + TableSum(Tail(names))

\* What the rule adds to the score when run alone.
CodeDelta(name) == ApplyRule(name, Context, EmptyAcc).riskScore

RECURSIVE CodeSum(_)
CodeSum(names) ==
    IF names = <<>> THEN 0 ELSE CodeDelta(Head(names)) + CodeSum(Tail(names))

\* C8: analyzeRequest returns an AnalysisResult for every request, and for a
\* request whose url new URL() rejects that result is exactly: categories
\* {malformed}, reasons ["Malformed URL"], riskScore 10, riskLevel low,
\* isSuspicious false; no rule of the try block has left anything in it.
C8_MalformedOnly ==
    Analyzed =>
        /\ DOMAIN analysis = {"isSuspicious", "reasons", "riskLevel", "categories", "riskScore"}
        /\ ~WellFormed =>
              analysis = [ isSuspicious |-> FALSE,
                           reasons      |-> <<"Malformed URL">>,
                           riskLevel    |-> "low",
                           categories   |-> <<"malformed">>,
                           riskScore    |-> 10 ]

\* C8's case: an unparsable url that holds a keyword, a listed TLD and a
\* listed extension has been analysed.
C8_Witness ==
    /\ Analyzed
    /\ request.url = "login-verify.tk/setup.exe"
    /\ ~WellFormed
    /\ analysis.riskScore = 10

\* C9, as stated: for a well-formed URL riskScore is the sum of the table's
\* deltas over the rules whose condition holds, and every such rule has left
\* exactly one reason.
C9_Original ==
    Analyzed /\ WellFormed =>
        /\ analysis.riskScore = TableSum(TriggeredRules)
        /\ Len(analysis.reasons) = Len(TriggeredRules)

\* C9, as the code has it: riskScore is the sum of what each rule that fires
\* adds when run alone, the keyword rule adding 5 per occurrence, and every
\* such rule has left exactly one reason.
C9_AdditiveByOccurrence ==
    Analyzed /\ WellFormed =>
        /\ analysis.riskScore = CodeSum(TriggeredRules)
        /\ Len(analysis.reasons) = Len(TriggeredRules)

\* C9's failing case: the keyword rule is the only one that fires, and the
\* score is not the table's.
C9_Witness ==
    /\ Analyzed
    /\ WellFormed
    /\ TriggeredRules = <<"keywords">>
    /\ analysis.riskScore = 10
    /\ TableSum(TriggeredRules) = 5

\* C10, as stated: the keyword rule adds 5 per distinct keyword of the URL
\* that is no substring of originalDomain, 25 at most; a keyword that occurs
\* several times counts once.
C10_Original ==
    Analyzed /\ WellFormed =>
        ApplyRule("keywords", Context, EmptyAcc).riskScore
            = Min(5 * Cardinality(CountedKeywords), 25)

\* C10's failing case: one keyword, twice in the URL, has added 10.
C10_Witness ==
    /\ Analyzed
    /\ request.url = "https://cdn.example.org/login/login"
    /\ originalDomain = "example.com"
    /\ request.resourceType = "script"
    /\ CountedKeywords = {"login"}
    /\ analysis.riskScore = 10

\* C11: in every classification riskLevel is critical from 50 points, high
\* from 30, medium from 15 and low below, and isSuspicious holds exactly from
\* 15 points, that is exactly when riskLevel is not low.
C11_LevelFromScore ==
    Analyzed =>
        /\ analysis.riskLevel = "critical" <=> analysis.riskScore >= 50
        /\ analysis.riskLevel = "high" <=> analysis.riskScore \in 30..49
        /\ analysis.riskLevel = "medium" <=> analysis.riskScore \in 15..29
        /\ analysis.riskLevel = "low" <=> analysis.riskScore < 15
        /\ analysis.isSuspicious <=> analysis.riskScore >= 15
        /\ analysis.isSuspicious <=> analysis.riskLevel # "low"

\* C11's case: a classification that sits on a threshold.
C11_Witness ==
    /\ Analyzed
    /\ analysis.riskScore = 15
    /\ analysis.riskLevel = "medium"
    /\ analysis.isSuspicious

\* The domain is a listed cryptominer domain or a subdomain of one.
OnMinerDomain ==
    \E i \in DOMAIN CRYPTOMINER_DOMAINS :
        \/ Context.domain = CRYPTOMINER_DOMAINS[i]
        \/ EndsWith(Context.domain, "." \o CRYPTOMINER_DOMAINS[i])

\* C12: a request to a listed cryptominer domain, or to a subdomain of one, is
\* classified cryptominer, with at least 50 points, critical and suspicious,
\* whatever else fires.
C12_MinerIsCritical ==
    Analyzed /\ WellFormed /\ OnMinerDomain =>
        /\ "cryptominer" \in Range(analysis.categories)
        /\ analysis.riskScore >= 50
        /\ analysis.riskLevel = "critical"
        /\ analysis.isSuspicious

\* C12's case: http://coinhive.com/miner.js, requested by a page of
\* example.com, has been analysed, and the extension rule fired with the
\* miner rule.
C12_Witness ==
    /\ Analyzed
    /\ request.url = "http://coinhive.com/miner.js"
    /\ request.resourceType = "script"
    /\ originalDomain = "example.com"
    /\ OnMinerDomain
    /\ analysis.categories = <<"malware-download", "cryptominer">>
    /\ analysis.riskScore = 85

\* C13: a request to the origin domain itself gets neither the cross-origin
\* category nor its 10 points, as fetch and as xhr: it scores what the same
\* request scores as a script.
C13_SameOriginNotCrossOrigin ==
    Analyzed /\ WellFormed /\ Context.domain = originalDomain =>
        /\ "cross-origin" \notin Range(analysis.categories)
        /\ ~Triggered("crossOrigin")
        /\ analysis.riskScore
              = analyzeRequest([request EXCEPT !.resourceType = "script"], originalDomain).riskScore

\* C13's case: a fetch to the origin itself has been analysed.
C13_Witness ==
    /\ Analyzed
    /\ request.resourceType = "fetch"
    /\ request.url = "https://example.com/login"
    /\ originalDomain = "example.com"
    /\ analysis.riskScore = 5

\* The domain d equals a listed tracking domain or is a subdomain of one.
IsTrackingDomain(d) ==
    \E i \in DOMAIN TRACKING_DOMAINS :
        d = TRACKING_DOMAINS[i] \/ EndsWith(d, "." \o TRACKING_DOMAINS[i])

OnTrackingDomain == IsTrackingDomain(Context.domain)

\* The request is an xhr or a fetch to a domain other than the origin.
CrossOriginCall ==
    /\ request.resourceType \in {"xhr", "fetch"}
    /\ Context.domain # originalDomain

\* C23, as stated: a well-formed xhr or fetch to a domain other than the
\* origin carries the cross-origin category exactly when it does not carry
\* the tracking category.
C23_Original ==
    Analyzed /\ WellFormed /\ CrossOriginCall =>
        ("cross-origin" \in Range(analysis.categories)
            <=> "tracking" \notin Range(analysis.categories))

\* C23, what the code keeps: the tracking category goes to the listed
\* domains and their subdomains, a cross-origin call to one of them is never
\* cross-origin, and a cross-origin call is cross-origin exactly when its
\* domain does not end with the text of a listed tracking domain.
C23_TrackersBySuffix ==
    Analyzed /\ WellFormed /\ CrossOriginCall =>
        LET domain   == Context.domain
            tracking == "tracking" \in Range(analysis.categories)
            crossing == "cross-origin" \in Range(analysis.categories)
        IN  /\ tracking <=> IsTrackingDomain(domain)
            /\ tracking => ~crossing
            /\ crossing <=> ~\E i \in DOMAIN TRACKING_DOMAINS :
                                 EndsWith(domain, TRACKING_DOMAINS[i])

\* C23's case: a fetch to notheap.io, which is neither heap.io nor a
\* subdomain of it, got neither category.
C23_Witness ==
    /\ Analyzed
    /\ request.url = "https://notheap.io/"
    /\ request.resourceType = "fetch"
    /\ originalDomain = "example.com"
    /\ ~OnTrackingDomain
    /\ "tracking" \notin Range(analysis.categories)
    /\ "cross-origin" \notin Range(analysis.categories)

\* The request carries a redirect status and its domain is not the origin.
RedirectElsewhere ==
    /\ request.status # Undefined
    /\ request.status[1] \in {301, 302, 303, 307, 308}
    /\ Context.domain # originalDomain

\* C24, as stated: a request with a redirect status to a domain other than
\* the origin carries the redirect category and scores 15 more than the same
\* request without a status.
C24_Original ==
    Analyzed /\ WellFormed /\ RedirectElsewhere =>
        /\ "redirect" \in Range(analysis.categories)
        /\ analysis.riskScore
              = analyzeRequest([request EXCEPT !.status = Undefined], originalDomain).riskScore + 15

\* C24, what the code does: the redirect rule never fires, so no request
\* carries the redirect category and the status changes nothing.
C24_RedirectNeverFires ==
    Analyzed =>
        /\ "redirect" \notin Range(analysis.categories)
        /\ analysis = analyzeRequest([request EXCEPT !.status = Undefined], originalDomain)

\* C24's case: a 302 response from cdn.example.org to a page of example.com
\* was analysed and nothing fired.
C24_Witness ==
    /\ Analyzed
    /\ request.url = "https://cdn.example.org/"
    /\ request.resourceType = "script"
    /\ request.status = Num(302)
    /\ originalDomain = "example.com"
    /\ RedirectElsewhere
    /\ analysis.categories = <<>>
    /\ analysis.riskScore = 0

(***************************************************************************)
(* Properties of analyzeAllRequests.                                       *)
(***************************************************************************)
Returned == phase = "returned"

\* The classification of each record of a list, in order.
RECURSIVE Classify(_, _)
Classify(reqs, origin) ==
    IF reqs = <<>> THEN <<>>
    ELSE <<analyzeRequest(Head(reqs), origin)>> \o Classify(Tail(reqs), origin)

\* The classifications that are suspicious, in order.
SuspiciousOf(analyses) == SelectSeq(analyses, LAMBDA an : an.isSuspicious)

\* low < medium < high < critical, with safe below them all.
Severity(level) ==
    CASE level = "safe"     -> 0
      [] level = "low"      -> 1
      [] level = "medium"   -> 2
      [] level = "high"     -> 3
      [] level = "critical" -> 4

RECURSIVE SumSeq(_)
SumSeq(q) == IF q = <<>> THEN 0 ELSE Head(q) + SumSeq(Tail(q))

C15_TotalOfSuspicious ==
    Returned =>
        LET suspicious == SuspiciousOf(Classify(requests, originalDomain))
        IN  result.summary.totalRiskScore
                = SumSeq([n \in DOMAIN suspicious |-> suspicious[n].riskScore])

\* C15's case: two requests of 10 points and one of 25 total 25.
C15_Witness ==
    /\ Returned
    /\ Len(requests) = 3
    /\ LET analyses == Classify(requests, originalDomain)
       IN  /\ analyses[1].riskScore = 10
           /\ analyses[2].riskScore = 25
           /\ analyses[3].riskScore = 10
    /\ result.summary.totalRiskScore = 25

\* C16: one classified entry per input record, in input order; the suspicious
\* list is the subsequence of the entries classified suspicious; totalRequests
\* is the input length, suspiciousCount the length of the suspicious list,
\* criticalCount and highCount the numbers of its critical and high entries,
\* and criticalCount + highCount <= suspiciousCount <= totalRequests.
C16_ListsAndCounts ==
    Returned =>
        LET summary  == result.summary
            analyses == Classify(requests, originalDomain)
        IN  /\ Len(result.analyzedRequests) = Len(requests)
            /\ \A i \in DOMAIN requests :
                   /\ result.analyzedRequests[i].url = requests[i].url
                   /\ result.analyzedRequests[i].resourceType = requests[i].resourceType
                   /\ result.analyzedRequests[i].status = requests[i].status
                   /\ result.analyzedRequests[i].analysis = analyses[i]
            /\ result.suspiciousRequests
                   = SelectSeq(result.analyzedRequests, LAMBDA e : e.analysis.isSuspicious)
            /\ summary.totalRequests = Len(requests)
            /\ summary.suspiciousCount = Len(result.suspiciousRequests)
            /\ summary.criticalCount
                   = Len(SelectSeq(result.suspiciousRequests,
                                   LAMBDA e : e.analysis.riskLevel = "critical"))
            /\ summary.highCount
                   = Len(SelectSeq(result.suspiciousRequests,
                                   LAMBDA e : e.analysis.riskLevel = "high"))
            /\ summary.criticalCount + summary.highCount <= summary.suspiciousCount
            /\ summary.suspiciousCount <= summary.totalRequests

\* C16's case: a request that is not suspicious between a medium and a
\* critical one.
C16_Witness ==
    /\ Returned
    /\ Len(requests) = 3
    /\ LET analyses == Classify(requests, originalDomain)
       IN  /\ analyses[1].riskLevel = "medium"
           /\ ~analyses[2].isSuspicious
           /\ analyses[3].riskLevel = "critical"
    /\ result.summary.suspiciousCount = 2
    /\ result.summary.criticalCount = 1
    /\ result.summary.highCount = 0

\* C17: the histogram gives, for each category, the number of suspicious
\* requests that carry it: its keys are the categories of the suspicious
\* requests, no request carries a category twice, requests that are not
\* suspicious add nothing, and every value lies between 1 and suspiciousCount.
C17_Histogram ==
    Returned =>
        LET analyses   == Classify(requests, originalDomain)
            suspicious == SuspiciousOf(analyses)
            histogram  == result.summary.categories
        IN  /\ \A n \in DOMAIN analyses :
                   Len(analyses[n].categories) = Cardinality(Range(analyses[n].categories))
            /\ DOMAIN histogram = UNION {Range(suspicious[n].categories) : n \in DOMAIN suspicious}
            /\ \A cat \in DOMAIN histogram :
                   /\ histogram[cat]
                          = Cardinality({n \in DOMAIN suspicious :
                                            cat \in Range(suspicious[n].categories)})
                   /\ histogram[cat] \in 1..result.summary.suspiciousCount

\* C17's case: a suspicious request two of whose rules share the category
\* data-exfiltration, a second suspicious request, and one that is not
\* suspicious and carries a category of its own.
C17_Witness ==
    /\ Returned
    /\ Len(requests) = 3
    /\ LET analyses == Classify(requests, originalDomain)
       IN  /\ analyses[1].categories = <<"obfuscation", "data-exfiltration">>
           /\ Len(analyses[1].reasons) = 3
           /\ analyses[2].categories = <<"malformed">>
           /\ analyses[3].categories = <<"cryptominer">>
    /\ DOMAIN result.summary.categories = {"obfuscation", "data-exfiltration", "cryptominer"}
    /\ result.summary.categories["data-exfiltration"] = 1

\* The summary of the records reqs, whose analyses are known.
SummaryOf(reqs, analyses) == Return(LoopOver(reqs, analyses, EmptyLoop), reqs).summary

\* The merge of two summaries: numbers and histogram values added,
\* overallRisk the higher of the two.
MergeSummaries(a, b) ==
    [ totalRequests   |-> a.totalRequests + b.totalRequests,
      suspiciousCount |-> a.suspiciousCount + b.suspiciousCount,
      criticalCount   |-> a.criticalCount + b.criticalCount,
      highCount       |-> a.highCount + b.highCount,
      categories      |-> [cat \in DOMAIN a.categories \cup DOMAIN b.categories |->
                              (IF cat \in DOMAIN a.categories THEN a.categories[cat] ELSE 0)
                            + (IF cat \in DOMAIN b.categories THEN b.categories[cat] ELSE 0)],
      overallRisk     |-> IF Severity(a.overallRisk) >= Severity(b.overallRisk)
                          THEN a.overallRisk ELSE b.overallRisk,
      totalRiskScore  |-> a.totalRiskScore + b.totalRiskScore ]

\* C18: the summary is the same for every order of the input records, and
\* the summary of a concatenation is the merge of the summaries of its two
\* parts.
C18_OrderAndMerge ==
    Returned =>
        LET analyses == Classify(requests, originalDomain)
            n        == Len(requests)
        IN  /\ \A p \in Perms(1..n) :
                   SummaryOf([i \in 1..n |-> requests[p[i]]], [i \in 1..n |-> analyses[p[i]]])
                       = result.summary
            /\ \A k \in 0..n :
                   MergeSummaries(SummaryOf(SubSeq(requests, 1, k), SubSeq(analyses, 1, k)),
                                  SummaryOf(SubSeq(requests, k + 1, n), SubSeq(analyses, k + 1, n)))
                       = result.summary

\* C18's case: three records of three different levels, the highest in the
\* middle, two of them with a category in common.
C18_Witness ==
    /\ Returned
    /\ Len(requests) = 3
    /\ LET analyses == Classify(requests, originalDomain)
       IN  /\ analyses[1].riskLevel = "medium"
           /\ analyses[2].riskLevel = "critical"
           /\ analyses[3].riskLevel = "high"
    /\ result.summary.overallRisk = "critical"
    /\ result.summary.totalRiskScore = 25 + 50 + 30

\* The highest riskScore among the suspicious classifications, or 0.
RECURSIVE HighestScore(_)
HighestScore(suspicious) ==
    IF suspicious = <<>> THEN 0
    ELSE Max(Head(suspicious).riskScore, HighestScore(Tail(suspicious)))

\* What analyzeAllRequests makes of the request lists of at most two records:
\* their totalRiskScore, their overallRisk, and the highest score among
\* their suspicious requests.
ComparedRuns ==
    { LET analyses == Classify(reqs, "example.com")
          summary  == SummaryOf(reqs, analyses)
      IN  [ totalRiskScore |-> summary.totalRiskScore,
            overallRisk    |-> summary.overallRisk,
            highestScore   |-> HighestScore(SuspiciousOf(analyses)) ]
      : reqs \in SeqsUpTo(CapturedRequests, 2) }

C29_NeverLow ==
    Returned =>
        /\ result.summary.overallRisk # "low"
        /\ \A n \in DOMAIN result.suspiciousRequests :
               /\ result.suspiciousRequests[n].analysis.riskLevel # "low"
               /\ result.suspiciousRequests[n].analysis.riskScore >= 15
        /\ result.summary.overallRisk = "safe" <=> result.summary.suspiciousCount = 0
        /\ result.summary.suspiciousCount > 0 =>
               result.summary.overallRisk \in {"medium", "high", "critical"}

\* C29's case: three requests below the threshold, none suspicious, and the
\* summary says safe.
C29_Witness ==
    /\ Returned
    /\ Len(requests) = 3
    /\ \A n \in DOMAIN requests : requests[n].url = "not a url"
    /\ \A n \in DOMAIN result.analyzedRequests :
           result.analyzedRequests[n].analysis.riskLevel = "low"
    /\ result.summary.suspiciousCount = 0
    /\ result.summary.overallRisk = "safe"

(***************************************************************************)
(* Properties of scanUrl.                                                  *)
(***************************************************************************)
\* Safe Browsing reported the scanned URL unsafe.
ReportedUnsafe == checks["safeBrowsing"].present /\ ~checks["safeBrowsing"].isSafe

\* C20: when Safe Browsing reports the URL unsafe, scanUrl sets the score
\* to 0, emits a complete update with status error right after the
\* safeBrowsing error update, and has returned: no probe was called after
\* checkSafeBrowsing, the returned checks hold safeBrowsing only, and the
\* returned score is what calculateScore gives for the returned result.
C20_UnsafeFailsFast ==
    ReportedUnsafe =>
        /\ phase = "scanned"
        /\ pc = "returned"
        /\ score = 0
        /\ updates = << Update("parse", "success"),
                        Update("safeBrowsing", "pending"),
                        Update("safeBrowsing", "error"),
                        Update("complete", "error") >>
        /\ invoked = <<"safeBrowsing">>
        /\ Present(checks) = {"safeBrowsing"}
        /\ score = calculateScore(checks).score

\* A scan that returned after Safe Browsing reported a threat.
C20_Witness ==
    /\ phase = "scanned"
    /\ ReportedUnsafe
    /\ score = 0
    /\ updates[Len(updates)] = Update("complete", "error")
    /\ invoked = <<"safeBrowsing">>

\* new URL(url) accepted the scanned URL.
Parseable == ParseUrl(site).ok

\* The probes in the order scanUrl calls them, and the steps it reports.
ProbeOrder == <<"safeBrowsing">> \o LaterProbes

StepOrder == <<"parse">> \o ProbeOrder \o <<"complete">>

Position(step) == CHOOSE i \in DOMAIN StepOrder : StepOrder[i] = step

\* The updates of one step, in the order they were emitted.
UpdatesOf(step) == SelectSeq(updates, LAMBDA u : u.step = step)

\* The probes a scan that ran to its end has called: the three probes of
\* the server's address when the geolocation gave one, the last three on a
\* deep scan.
ExpectedProbes ==
    <<"safeBrowsing", "whois", "ssl", "geolocation">>
        \o (IF checks["geolocation"].present
            THEN <<"reverseDns", "portScan", "ipReputation">> ELSE <<>>)
        \o <<"securityHeaders", "cookieSecurity">>
        \o (IF deepScan
            THEN <<"sensitiveFiles", "versionDisclosure", "adminPanels">> ELSE <<>>)

\* C22: for a parseable URL the probes run one at a time in a fixed order,
\* Safe Browsing first; every probe that ran has a pending update followed
\* by exactly one success, warning or error update of its step, before any
\* update of a later step; a probe that threw has a warning update and no
\* check, and the scan went on to the probes after it; exactly one
\* complete update is emitted, and it is the last one.
C22_OrderedUpdates ==
    Parseable =>
        /\ \A i, j \in DOMAIN updates :
               i < j => Position(updates[i].step) <= Position(updates[j].step)
        /\ invoked # <<>> => invoked[1] = "safeBrowsing"
        /\ \A i, j \in DOMAIN invoked :
               i < j => Position(invoked[i]) < Position(invoked[j])
        /\ \A n \in Range(ProbeOrder) :
               LET ups == UpdatesOf(n)
               IN  IF n \in Range(invoked)
                   THEN /\ Len(ups) = 2
                        /\ ups[1].status = "pending"
                        /\ ups[2].status \in {"success", "warning", "error"}
                        /\ ~checks[n].present => ups[2].status = "warning"
                   ELSE ups = <<>> /\ ~checks[n].present
        /\ Len(UpdatesOf("complete")) = (IF phase = "scanned" THEN 1 ELSE 0)
        /\ phase = "scanned" =>
               /\ updates[Len(updates)].step = "complete"
               /\ ~ReportedUnsafe => invoked = ExpectedProbes

\* C22's case: a deep scan in which checkWhois and checkSsl threw ran all
\* twelve probes and ended with the complete update.
C22_Witness ==
    /\ phase = "scanned"
    /\ Parseable
    /\ deepScan
    /\ ~checks["whois"].present /\ ~checks["ssl"].present
    /\ UpdatesOf("whois") = <<Update("whois", "pending"), Update("whois", "warning")>>
    /\ invoked = ProbeOrder
    /\ Len(updates) = 26
    /\ updates[26].step = "complete"

\* The score of the scan had the check of the probe n been absent.
ScoreWithout(n) == calculateScore([checks EXCEPT ![n] = Absent]).score

\* C27, as stated: the final score of a scan in which the network call of
\* a probe failed is the score of the same scan with that probe's check
\* absent.
C27_Original ==
    phase = "scanned" /\ Parseable /\ ~ReportedUnsafe =>
        \A n \in failed : score = ScoreWithout(n)

\* C27, what the code keeps: a failed probe other than checkReverseDns and
\* checkSecurityHeaders leaves the score as if its check were absent; a
\* failed checkReverseDns reports no match and a failed
\* checkSecurityHeaders reports grade F, which can only lower the score.
C27_FailedProbesButTwo ==
    phase = "scanned" /\ Parseable /\ ~ReportedUnsafe =>
        /\ \A n \in failed \ {"reverseDns", "securityHeaders"} : score = ScoreWithout(n)
        /\ \A n \in failed \cap {"reverseDns", "securityHeaders"} :
               /\ checks[n].present
               /\ score <= ScoreWithout(n)

\* C27's case: only the request of checkSecurityHeaders failed, the scan
\* holds grade F for it and scores 20 less than without it.
C27_Witness ==
    /\ phase = "scanned"
    /\ Parseable
    /\ failed = {"securityHeaders"}
    /\ checks["securityHeaders"].grade = "F"
    /\ ScoreWithout("securityHeaders") = score + 20

(***************************************************************************)
(* Properties of LinkScanner and the start-scan handler.                   *)
(***************************************************************************)
\* The probes of the deep scan.
DeepProbes == {"sensitiveFiles", "versionDisclosure", "adminPanels"}

\* The k-th scan has emitted all its updates.
Finished(k) == scans[k].emitted = Len(scans[k].script)

\* The k-th scan has emitted its complete update.
Completed(k) ==
    /\ Finished(k)
    /\ LET ups == scans[k].script[Len(scans[k].script)]
       IN  ups[Len(ups)].step = "complete"

C25_Original ==
    [][ Disconnect /\ linkScanner.isScanning =>
            /\ ~linkScanner'.isScanning
            /\ linkScanner'.progressUpdates.last = <<ConnectionLost>> ]_vars

\* C25, what the code does: the handlers of every socket closed over an
\* isScanning that is false, so the disconnect handler clears isConnected
\* and nothing else.
C25_StaleIsScanning ==
    /\ [](~socket.isScanning)
    /\ [][ Disconnect => linkScanner' = [linkScanner EXCEPT !.isConnected = FALSE] ]_vars

\* C25's case: the connection was lost during a scan started from the url
\* field; the scan goes on at the server, and the component still shows
\* isScanning with no connection-lost update.
C25_Witness ==
    /\ ~socket.connected
    /\ socket.id = 1
    /\ socket.sendBuffer = <<>>
    /\ Len(scans) = 1
    /\ scans[1].socket = socket.id
    /\ ~Finished(1)
    /\ ~linkScanner.isConnected
    /\ linkScanner.isScanning
    /\ linkScanner.progressUpdates.lost = 0

\* C28, as stated: every start-scan event the server received leads to a
\* complete update (scanUrl does not throw, so no scan-error is emitted),
\* and isScanning, once set, is reset in the end.
C28_Original ==
    /\ \A k \in 1..MaxScans : (Len(scans) >= k) ~> (Len(scans) >= k /\ Completed(k))
    /\ linkScanner.isScanning ~> ~linkScanner.isScanning

\* C28, what the code keeps: every scan emits all its updates in the end,
\* and the last one is the complete update when the URL parses, and the
\* parse error when it does not.
C28_CompleteIfParseable ==
    \A k \in 1..MaxScans :
        (Len(scans) >= k) ~>
            (/\ Len(scans) >= k
             /\ Finished(k)
             /\ Completed(k) <=> ParseUrl(scans[k].url).ok)

\* C28's case: the scan of a URL that does not parse has emitted all it
\* emits, the parse error, on a socket that stayed connected, and the
\* component is left with isScanning set.
C28_Witness ==
    /\ Len(scans) = 1
    /\ socket.connected /\ socket.id = 1 /\ scans[1].socket = 1
    /\ Finished(1)
    /\ scans[1].script = << <<Update("parse", "error")>> >>
    /\ ~Completed(1)
    /\ linkScanner.isScanning
    /\ linkScanner.progressUpdates.last = <<Update("parse", "error")>>

\* The scans that run on the socket id.
RunningOn(id) == {k \in DOMAIN scans : scans[k].socket = id /\ ~Finished(k)}

\* C30, as stated: no start-scan event is emitted while isScanning is set,
\* at most one scan runs on a socket, and progressUpdates holds the
\* updates of one scan only.
C30_Original ==
    /\ [][ Emitted' > Emitted => ~linkScanner.isScanning ]_vars
    /\ [](\A id \in 1..MaxConnects : Cardinality(RunningOn(id)) <= 1)
    /\ [](Cardinality(linkScanner.progressUpdates.scans) <= 1)

\* C30, what the code keeps: the scan button starts no scan while
\* isScanning is set; the Enter key and the buffered events do.
C30_ButtonOnly ==
    [][ Emitted' > Emitted /\ linkScanner.isScanning => PressEnter \/ Connect ]_vars

\* C30's case: Enter was pressed during a scan: two scans run on the one
\* socket and the component shows updates of both.
C30_Witness ==
    /\ Len(scans) = 2
    /\ scans[2].by.isScanning /\ ~scans[2].by.auto
    /\ socket.connected
    /\ RunningOn(socket.id) = {1, 2}
    /\ linkScanner.isScanning
    /\ linkScanner.progressUpdates.scans = {1, 2}

(***************************************************************************)
(* The QRScanner component, in its two versions: the one with a start      *)
(* button (part_010) and the one that starts its scanner when it mounts    *)
(* and hands the decoded text on after a delay (QRScanner.tsx).  Each      *)
(* Html5Qrcode it creates is kept with the number of stop() calls made on  *)
(* it and of onScanSuccess calls made for it.                              *)
(***************************************************************************)
\* The largest number of Html5Qrcode scanners one component creates.
MaxScanners == 3

Versions == {"part_010", "QRScanner.tsx"}

\* new Html5Qrcode(...): start() not yet called.  waiting holds the callers
\* that wait for stop() to settle, ignored tells that a decode callback
\* returned at its guard, timer that the setTimeout of the decode callback
\* is pending.
NewScanner ==
    [ state     |-> "created",
      stops     |-> 0,
      successes |-> 0,
      waiting   |-> <<>>,
      ignored   |-> FALSE,
      timer     |-> FALSE ]

\* Html5Qrcode.isScanning: from the camera's start to the end of stop().
isScanning(scanner) == scanner.state \in {"scanning", "stopping"}

\* scanner.stop() on the i-th scanner, by caller.
stop(q, i, caller) ==
    [q EXCEPT !.scanners[i].state = "stopping",
              !.scanners[i].stops = @ + 1,
              !.scanners[i].waiting = Append(@, caller)]

\* The cleanup of the effect.
cleanup(q) ==
    LET scanner == q.scannerRef
    IN  IF scanner # 0 /\ ~q.stoppingRef /\ isScanning(q.scanners[scanner])
        THEN stop([q EXCEPT !.stoppingRef = TRUE], scanner, "cleanup")
        ELSE q

\* App takes QRScanner off the page.
unmount(q) == IF q.mounted THEN cleanup([q EXCEPT !.mounted = FALSE]) ELSE q

\* onScanSuccess for the i-th scanner: handleQRScan of App switches to the
\* link view.
onScanSuccess(q, i) == unmount([q EXCEPT !.scanners[i].successes = @ + 1])

\* startScanner up to its await of scanner.start().
startScanner(q) ==
    IF q.version = "QRScanner.tsx" /\ q.scannerRef # 0
    THEN q
    ELSE [q EXCEPT !.stoppingRef = FALSE,
                   !.scanners = Append(@, [NewScanner EXCEPT !.state = "starting"]),
                   !.scannerRef = Len(q.scanners) + 1]

\* A decode callback that calls stop() whatever stoppingRef is.
onDecoded_noGuard(q, i) ==
    stop([q EXCEPT !.stoppingRef = TRUE], i, "decoded")

\* The decode callback of the i-th scanner, up to its wait for stop().
onDecoded(q, i) ==
    IF q.stoppingRef
    THEN [q EXCEPT !.scanners[i].ignored = TRUE]
    ELSE stop([q EXCEPT !.stoppingRef = TRUE], i, "decoded")

\* stopScanner up to its await of scanner.stop(); it runs to its end when
\* the scanner is not scanning.
stopScanner(q) ==
    LET scanner == q.scannerRef
    IN  IF scanner # 0 /\ ~q.stoppingRef
        THEN IF isScanning(q.scanners[scanner])
             THEN stop([q EXCEPT !.stoppingRef = TRUE], scanner, "stopScanner")
             ELSE [q EXCEPT !.stoppingRef = TRUE, !.scannerRef = 0, !.scannerStarted = FALSE]
        ELSE q

\* What the caller that waited for stop() of the i-th scanner does next.
afterStop(q, i, caller) ==
    LET cleared == [q EXCEPT !.scannerRef = 0, !.scannerStarted = FALSE]
    IN  CASE caller = "cleanup"     -> q
          [] caller = "stopScanner" -> cleared
          [] caller = "decoded"     ->
                 IF q.version = "part_010"
                 THEN onScanSuccess(cleared, i)
                 ELSE [cleared EXCEPT !.scanners[i].timer = TRUE]

RECURSIVE afterStopAll(_, _, _)
afterStopAll(q, i, callers) ==
    IF callers = <<>> THEN q
    ELSE afterStopAll(afterStop(q, i, Head(callers)), i, Tail(callers))

\* QRScanner after it mounted: QRScanner.tsx has called startScanner.
QrMounted(version) ==
    LET q == [ version        |-> version,
               mounted        |-> TRUE,
               scannerStarted |-> FALSE,
               scannerRef     |-> 0,
               stoppingRef    |-> FALSE,
               scanners       |-> <<>> ]
    IN  IF version = "QRScanner.tsx" THEN startScanner(q) ELSE q

InitQr ==
    /\ checks = NoChecks
    /\ score = 100
    /\ evaluated = <<>>
    /\ phase = "qr"
    /\ request = NoRequest
    /\ originalDomain = ""
    /\ analysis = Absent
    /\ requests = <<>>
    /\ loop = EmptyLoop
    /\ result = Absent
    /\ NoScan
    /\ linkScanner = Absent
    /\ socket = Absent
    /\ scans = <<>>
    /\ \E version \in Versions : qrScanner = QrMounted(version)

\* The other parts of the model stay as they are.
QrOnly ==
    UNCHANGED <<scoreVars, phase, originalDomain, classifyVars, aggregateVars, scanVars,
                linkScanner, socket, scans>>

\* onClick of the start button, rendered while scannerStarted is not set.
StartPressed ==
    /\ phase = "qr"
    /\ qrScanner.mounted
    /\ ~qrScanner.scannerStarted
    /\ Len(qrScanner.scanners) < MaxScanners
    /\ qrScanner' = startScanner(qrScanner)
    /\ QrOnly

\* scanner.start() of the i-th scanner resolves, and startScanner goes on.
StartResolves(i) ==
    /\ phase = "qr"
    /\ i \in DOMAIN qrScanner.scanners
    /\ qrScanner.scanners[i].state = "starting"
    /\ qrScanner' = [qrScanner EXCEPT !.scanners[i].state = "scanning",
                                      !.scannerStarted = TRUE]
    /\ QrOnly

\* scanner.start() of the i-th scanner rejects: startScanner sets error.
StartRejects(i) ==
    /\ phase = "qr"
    /\ i \in DOMAIN qrScanner.scanners
    /\ qrScanner.scanners[i].state = "starting"
    /\ qrScanner' = [qrScanner EXCEPT !.scanners[i].state = "failed"]
    /\ QrOnly

\* The i-th scanner decodes a QR code and calls the decode callback.
Decoded(i) ==
    /\ phase = "qr"
    /\ i \in DOMAIN qrScanner.scanners
    /\ isScanning(qrScanner.scanners[i])
    /\ qrScanner' = onDecoded(qrScanner, i)
    /\ QrOnly

\* onClick of the stop button, rendered while scannerStarted is set.
StopPressed ==
    /\ phase = "qr"
    /\ qrScanner.mounted
    /\ qrScanner.scannerStarted
    /\ qrScanner' = stopScanner(qrScanner)
    /\ QrOnly

\* The user leaves the QR view.
Unmount ==
    /\ phase = "qr"
    /\ qrScanner.mounted
    /\ qrScanner' = unmount(qrScanner)
    /\ QrOnly

\* stop() of the i-th scanner settles, and those that waited for it go on.
StopSettles(i) ==
    /\ phase = "qr"
    /\ i \in DOMAIN qrScanner.scanners
    /\ qrScanner.scanners[i].state = "stopping"
    /\ qrScanner' =
          afterStopAll([qrScanner EXCEPT !.scanners[i].state = "stopped",
                                         !.scanners[i].waiting = <<>>],
                       i, qrScanner.scanners[i].waiting)
    /\ QrOnly

\* The timer of the decode callback of the i-th scanner fires.
TimerFires(i) ==
    /\ phase = "qr"
    /\ i \in DOMAIN qrScanner.scanners
    /\ qrScanner.scanners[i].timer
    /\ qrScanner' = onScanSuccess([qrScanner EXCEPT !.scanners[i].timer = FALSE], i)
    /\ QrOnly

NextQr ==
    \/ StartPressed
    \/ Unmount
    \/ StopPressed
    \/ \E i \in 1..MaxScanners :
          \/ StartResolves(i)
          \/ StartRejects(i)
          \/ Decoded(i)
          \/ StopSettles(i)
          \/ TimerFires(i)

SpecQr == InitQr /\ [][NextQr]_vars

\* The scanners no startScanner came after: the one the component created
\* last, and in QRScanner.tsx, where startScanner returns while scannerRef
\* is set, every scanner.
Settled ==
    {i \in DOMAIN qrScanner.scanners :
        i = Len(qrScanner.scanners) \/ qrScanner.version = "QRScanner.tsx"}

====
